---- MODULE Spec2Model ----
(***************************************************************************)
(* Model of the knowledge-base core of inna_curator (src/main.py): the     *)
(* corpus parser load_kb, the lexical and the semantic candidate search,   *)
(* the LLM selector and their fallbacks.                                   *)
(*                                                                         *)
(* Text is modelled character by character: a string is a sequence of      *)
(* Unicode code points, so that lower-casing, the regular expressions and  *)
(* the substring tests of the source are computed, not assumed.            *)
(***************************************************************************)
EXTENDS Integers, Sequences, FiniteSets, TLC

(***************************************************************************)
(* Characters and strings                                                  *)
(***************************************************************************)

\* Body applied to the value v: names an intermediate result, as a local
\* variable of the source does.
With(v, Body(_)) == Body(v)

\* Python's str.isspace / the regex class \s, for the characters modelled.
IsSpace(c) == c \in {9, 10, 11, 12, 13, 28, 29, 30, 31, 32, 133, 160}

\* The regex class \d (ASCII digits are the only digits modelled).
IsDigit(c) == c \in 48..57

\* The regex class \w: Latin and Cyrillic letters (long s and the letters
\* of Cyrillic Extended-C among them), digits, underscore.
IsWordChar(c) ==
    \/ c \in 48..57
    \/ c \in 65..90
    \/ c \in 97..122
    \/ c = 95
    \/ c \in 1024..1279
    \/ c = 383
    \/ c \in 7296..7304

\* The regex class \S.
IsNonSpace(c) == ~IsSpace(c)

\* str.lower() on one character: A-Z, the Cyrillic capitals, and the two
\* ranges of Cyrillic capitals that lie 80 below their small letters.
LowerChar(c) ==
    IF c \in 65..90 THEN c + 32
    ELSE IF c \in 1040..1071 THEN c + 32
    ELSE IF c \in 1024..1039 THEN c + 80
    ELSE c

Lower(s) == [n \in 1..Len(s) |-> LowerChar(s[n])]

\* What re.IGNORECASE takes a character for: its lower case, and for the
\* letters of the patterns the further characters Unicode gives the same
\* upper case (long s; the Cyrillic long-legged de, narrow o, wide es, tall
\* te and three-legged te), which str.lower() leaves alone.
FoldChar(c) ==
    IF c = 383 THEN 115
    ELSE IF c = 7297 THEN 1076
    ELSE IF c = 7298 THEN 1086
    ELSE IF c = 7299 THEN 1089
    ELSE IF c \in {7300, 7301} THEN 1090
    ELSE LowerChar(c)

IgnoreCase(s) == [n \in 1..Len(s) |-> FoldChar(s[n])]

\* The first position q >= p of s whose character does not satisfy P
\* (Len(s) + 1 when there is none): the end of a greedy run P* from p.
SkipWhile(s, p, P(_)) ==
    CHOOSE q \in p..(Len(s) + 1) :
        /\ \A r \in p..(q - 1) : P(s[r])
        /\ (q = Len(s) + 1 \/ ~P(s[q]))

\* The last position q <= p of s whose character does not satisfy P
\* (0 when there is none).
SkipBack(s, p, P(_)) ==
    CHOOSE q \in 0..p :
        /\ \A r \in (q + 1)..p : P(s[r])
        /\ (q = 0 \/ ~P(s[q]))

\* s[p..] starts with lit.
StartsAt(s, p, lit) ==
    /\ p >= 1
    /\ p + Len(lit) - 1 <= Len(s)
    /\ \A n \in 1..Len(lit) : s[p + n - 1] = lit[n]

\* Python's "w in s" for strings.
Contains(s, w) == \E p \in 1..(Len(s) - Len(w) + 1) : StartsAt(s, p, w)

\* s.strip(chars) for a predicate on characters.
StripBy(s, P(_)) == SubSeq(s, SkipWhile(s, 1, P), SkipBack(s, Len(s), P))

RStripBy(s, P(_)) == SubSeq(s, 1, SkipBack(s, Len(s), P))

Strip(s) == StripBy(s, IsSpace)

RStrip(s) == RStripBy(s, IsSpace)

\* sep.join(parts)
RECURSIVE Join(_, _)
Join(parts, sep) ==
    IF Len(parts) = 0 THEN << >>
    ELSE IF Len(parts) = 1 THEN parts[1]
    ELSE parts[1] \o sep \o Join(Tail(parts), sep)

\* The elements of a sequence.
SeqSet(seq) == { seq[n] : n \in 1..Len(seq) }

\* The lists of seqs, one after the other.
RECURSIVE Concat(_)
Concat(seqs) == IF Len(seqs) = 0 THEN << >> ELSE Head(seqs) \o Concat(Tail(seqs))

\* The position of the first sep in s, or Len(s) + 1.
FirstOf(s, sep) ==
    CHOOSE q \in 1..(Len(s) + 1) :
        /\ \A r \in 1..(q - 1) : s[r] # sep
        /\ (q = Len(s) + 1 \/ s[q] = sep)

\* s.split(sep) for a one-character separator.
RECURSIVE Split(_, _)
Split(s, sep) ==
    With(FirstOf(s, sep), LAMBDA p :
        IF p > Len(s) THEN << s >>
        ELSE << SubSeq(s, 1, p - 1) >> \o Split(SubSeq(s, p + 1, Len(s)), sep))

\* The characters  " ' « » and the two curly double quotes.
QuoteChars == {34, 39, 171, 187, 8220, 8221}

SPACE == << 32 >>

NEWLINE == << 10 >>

EMPTY == << >>

\* .replace("ё", "е"): the letter yo (1105) becomes ye (1077).
FoldYo(s) == [n \in 1..Len(s) |-> IF s[n] = 1105 THEN 1077 ELSE s[n]]

\* re.sub(r"[\"'“”«»]", "", s)
DropQuotes(s) == SelectSeq(s, LAMBDA c : c \notin QuoteChars)

\* re.sub(r"\s+", " ", s): the first character of a whitespace run becomes
\* a space, the others (marked 0) go.
CollapseSpaces(s) ==
    SelectSeq([n \in 1..Len(s) |->
                  IF IsSpace(s[n])
                  THEN (IF n > 1 /\ IsSpace(s[n - 1]) THEN 0 ELSE 32)
                  ELSE s[n]],
              LAMBDA c : c # 0)

\* main.py normalize()
normalize(s) == CollapseSpaces(DropQuotes(FoldYo(Strip(Lower(s)))))

(***************************************************************************)
(* The recognizers of the corpus format.  Every pattern of the source is   *)
(* compiled with re.IGNORECASE, modelled by matching on IgnoreCase(line);   *)
(* the captured groups are cut from the line itself.                       *)
(***************************************************************************)

L_struktura == << 1089, 1090, 1088, 1091, 1082, 1090, 1091, 1088, 1072 >>  \* "структура"
L_kursa     == << 1082, 1091, 1088, 1089, 1072 >>                          \* "курса"
L_stupen    == << 1089, 1090, 1091, 1087, 1077, 1085 >>                    \* "ступен"
L_modul     == << 1084, 1086, 1076, 1091, 1083 >>                          \* "модул"
L_urok      == << 1091, 1088, 1086, 1082 >>                                \* "урок"
L_http      == << 104, 116, 116, 112 >>                                    \* "http"
L_colon_slashes == << 58, 47, 47 >>                                        \* "://"
L_ssylka    == << 1089, 1089, 1099, 1083, 1082, 1072 >>                    \* "ссылка"
L_na        == << 1085, 1072 >>                                            \* "на"
L_dz        == << 1076, 1079 >>                                            \* "дз"
L_razdel    == << 1088, 1072, 1079, 1076, 1077, 1083 >>                    \* "раздел"

\* "(материал не указан)"
NoMaterial ==
    << 40, 1084, 1072, 1090, 1077, 1088, 1080, 1072, 1083, 32, 1085, 1077,
       32, 1091, 1082, 1072, 1079, 1072, 1085, 41 >>

\* lit, then at least one whitespace character, then lit2, at position p of l.
TwoWordsAt(l, p, lit, lit2) ==
    /\ StartsAt(l, p, lit)
    /\ With(SkipWhile(l, p + Len(lit), IsSpace), LAMBDA q :
           q > p + Len(lit) /\ StartsAt(l, q, lit2))

\* COURSE_RE  ^\s*СТРУКТУРА\s+КУРСА  (search)
COURSE_RE(ln) ==
    With(IgnoreCase(ln), LAMBDA l :
        TwoWordsAt(l, SkipWhile(l, 1, IsSpace), L_struktura, L_kursa))

\* \d+\s*<word> at position p of l: the position after <word>, or 0.
NumberWordAt(l, p, word) ==
    With(SkipWhile(l, p, IsDigit), LAMBDA p2 :
    With(SkipWhile(l, p2, IsSpace), LAMBDA p3 :
        IF p2 > p /\ StartsAt(l, p3, word) THEN p3 + Len(word) ELSE 0))

\* ^\s*\d+\s*<word> : the position after <word>, or 0 when no match.
NumberedHeaderEnd(ln, word) ==
    With(IgnoreCase(ln), LAMBDA l : NumberWordAt(l, SkipWhile(l, 1, IsSpace), word))

\* STEP_RE  ^\s*\d+\s*ступен
STEP_RE(ln) == NumberedHeaderEnd(ln, L_stupen) # 0

\* MODULE_RE  ^\s*\d+\s*модул
MODULE_RE(ln) == NumberedHeaderEnd(ln, L_modul) # 0

\* LESSON_RE  ^\s*\d+\s*урок\b
LESSON_RE(ln) ==
    With(NumberedHeaderEnd(ln, L_urok), LAMBDA e :
        e # 0 /\ (e > Len(ln) \/ ~IsWordChar(ln[e])))

\* Which header a stripped, non-blank line is: the order of the tests of
\* the main loop (main.py lines 511, 525, 540, 554).
HeaderKind(ln) ==
    IF COURSE_RE(ln) THEN "course"
    ELSE IF STEP_RE(ln) THEN "step"
    ELSE IF MODULE_RE(ln) THEN "module"
    ELSE IF LESSON_RE(ln) THEN "lesson"
    ELSE "other"

\* The header test of the lesson sub-scan (main.py line 566).
IsHeader(ln) == HeaderKind(ln) # "other"

\* ://\S+ at position q of l: the position after the match, or 0.
UrlRestAt(l, q) ==
    With(SkipWhile(l, q + Len(L_colon_slashes), IsNonSpace), LAMBDA e :
        IF StartsAt(l, q, L_colon_slashes) /\ e > q + Len(L_colon_slashes)
        THEN e ELSE 0)

\* https?://\S+ anchored at position p of the lower-cased line l: the
\* position after the match, or 0.
UrlEndAt(l, p) ==
    IF ~StartsAt(l, p, L_http) THEN 0
    ELSE IF StartsAt(l, p + Len(L_http), << 115 >>)
    THEN UrlRestAt(l, p + Len(L_http) + 1)
    ELSE UrlRestAt(l, p + Len(L_http))

\* The characters  ) . , ;  of  .rstrip(").,;")
UrlTailChars == {41, 46, 44, 59}

IsUrlTail(c) == c \in UrlTailChars

\* The leftmost position of l where https?://\S+ matches, or 0.
UrlStart(l) ==
    IF \A q \in 1..Len(l) : UrlEndAt(l, q) = 0 THEN 0
    ELSE CHOOSE q \in 1..Len(l) :
             UrlEndAt(l, q) # 0 /\ \A r \in 1..(q - 1) : UrlEndAt(l, r) = 0

\* URL_LINE_RE.search(ln): does the line hold a URL.
URL_LINE_RE(ln) == UrlStart(IgnoreCase(ln)) # 0

\* group(1).rstrip(").,;") of https?://\S+ matched at position p of ln.
UrlAt(ln, p) == RStripBy(SubSeq(ln, p, UrlEndAt(IgnoreCase(ln), p) - 1), IsUrlTail)

\* m.group(1).rstrip(").,;") of URL_LINE_RE.search(ln), the leftmost match.
UrlOf(ln) == UrlAt(ln, UrlStart(IgnoreCase(ln)))

\* \s*:\s*(https?://\S+) anchored at p: the start of the URL, or 0.
LinkTailAt(l, p) ==
    With(SkipWhile(l, p, IsSpace), LAMBDA c :
    With(SkipWhile(l, c + 1, IsSpace), LAMBDA u :
        IF c <= Len(l) /\ l[c] = 58 /\ UrlEndAt(l, u) # 0 THEN u ELSE 0))

\* \s+на\s+урок at position a of l: the position after it, or 0.
LongLinkWordsAt(l, a) ==
    With(SkipWhile(l, a, IsSpace), LAMBDA b :
        IF b > a /\ TwoWordsAt(l, b, L_na, L_urok)
        THEN SkipWhile(l, b + Len(L_na), IsSpace) + Len(L_urok)
        ELSE 0)

\* (?:Ссылка\s+на\s+урок|Ссылка)\s*:\s*(https?://\S+) anchored at p: the
\* start of the URL, or 0.  The long alternative is tried first.
LessonLinkAt(l, p) ==
    IF ~StartsAt(l, p, L_ssylka) THEN 0
    ELSE With(LongLinkWordsAt(l, p + Len(L_ssylka)), LAMBDA e :
         With(IF e # 0 THEN LinkTailAt(l, e) ELSE 0, LAMBDA long :
             IF long # 0 THEN long ELSE LinkTailAt(l, p + Len(L_ssylka))))

\* The start of the URL of the leftmost match of LESSON_URL_LINE_RE, or 0.
LessonLinkStart(l) ==
    IF \A q \in 1..Len(l) : LessonLinkAt(l, q) = 0 THEN 0
    ELSE LessonLinkAt(l, CHOOSE q \in 1..Len(l) :
             LessonLinkAt(l, q) # 0 /\ \A r \in 1..(q - 1) : LessonLinkAt(l, r) = 0)

\* LESSON_URL_LINE_RE.search(cur)
LESSON_URL_LINE_RE(cur) == LessonLinkStart(IgnoreCase(cur)) # 0

\* mlu.group(1).rstrip(").,;")
LessonUrlOf(cur) == UrlAt(cur, LessonLinkStart(IgnoreCase(cur)))

NotCloseParen(c) == c # 41

\* (?:\s*\([^)]+\))? at position a of l: the position after the group when
\* it matches, else a.
DzParenEnd(l, a) ==
    With(SkipWhile(l, a, IsSpace), LAMBDA b :
    With(SkipWhile(l, b + 1, NotCloseParen), LAMBDA cl :
        IF b <= Len(l) /\ l[b] = 40 /\ cl <= Len(l) /\ cl > b + 1
        THEN cl + 1 ELSE a))

\* \s*:\s*(.+)$ at position t of l: the start of the group, or 0.
ColonRestAt(l, t) ==
    With(SkipWhile(l, t, IsSpace), LAMBDA c :
    With(SkipWhile(l, c + 1, IsSpace), LAMBDA g :
        IF c < Len(l) /\ l[c] = 58
        THEN (IF g <= Len(l) THEN g ELSE Len(l)) ELSE 0))

\* DZ_RE  ^\s*ДЗ(?:\s*\([^)]+\))?\s*:\s*(.+)$ : the start of group 1, or 0.
DzGroupStart(cur) ==
    With(IgnoreCase(cur), LAMBDA l :
    With(SkipWhile(l, 1, IsSpace), LAMBDA p1 :
        IF StartsAt(l, p1, L_dz)
        THEN ColonRestAt(l, DzParenEnd(l, p1 + Len(L_dz))) ELSE 0))

DZ_RE(cur) == DzGroupStart(cur) # 0

\* mdz.group(1).strip()
HomeworkOf(cur) == Strip(SubSeq(cur, DzGroupStart(cur), Len(cur)))

\* [^»"':]  of SECTION_FULL_RE
IsTitleChar(c) == c \notin {187, 34, 39, 58}

OpenQuotes == {171, 34, 39}

CloseQuotes == {187, 34, 39}

NoMatch == [ok |-> FALSE, g |-> 0, e |-> 0, c |-> 0]

\* [»"']?\s*: at position e of l: the position of the colon (0 if none),
\* which must leave at least one character for the materials.
SectionColonAt(l, e) ==
    With(SkipWhile(l, IF e <= Len(l) /\ l[e] \in CloseQuotes THEN e + 1 ELSE e,
                   IsSpace), LAMBDA c :
        IF c < Len(l) /\ l[c] = 58 THEN c ELSE 0)

\* ([^»"':]+)[»"']?\s*:\s*(.+)$ with group 1 starting at g: the start and
\* the end of group 1 and the position of the colon.
SectionTryFrom(l, g) ==
    With(SkipWhile(l, g, IsTitleChar), LAMBDA e :
    With(SectionColonAt(l, e), LAMBDA c :
        [ok |-> g <= Len(l) /\ e > g /\ c # 0, g |-> g, e |-> e, c |-> c]))

\* The starts of group 1 in the order the regex engine tries them: all
\* whitespace and the opening quote taken; the opening quote left to group
\* 1; one whitespace character given back to group 1.
SectionStarts(l, p0, p1) ==
    << IF p1 <= Len(l) /\ l[p1] \in OpenQuotes THEN p1 + 1 ELSE p1, p1 >>
    \o (IF p1 > p0 THEN << p1 - 1 >> ELSE << >>)

\* The first of the tries that matches.
RECURSIVE FirstSectionMatch(_, _)
FirstSectionMatch(l, starts) ==
    IF starts = << >> THEN NoMatch
    ELSE With(SectionTryFrom(l, Head(starts)), LAMBDA m :
             IF m.ok THEN m ELSE FirstSectionMatch(l, Tail(starts)))

\* SECTION_FULL_RE.match(s)
\*   ^Раздел\s*[«"']?([^»"':]+)[»"']?\s*:\s*(.+)$
SectionMatch(s) ==
    With(IgnoreCase(s), LAMBDA l :
        IF ~StartsAt(l, 1, L_razdel) THEN NoMatch
        ELSE FirstSectionMatch(l,
                 SectionStarts(l, Len(L_razdel) + 1,
                               SkipWhile(l, Len(L_razdel) + 1, IsSpace))))

SECTION_FULL_RE(s) == SectionMatch(s).ok

\* The characters of  p.strip(" .;")
IsMaterialTrim(c) == c \in {32, 46, 59}

\* The second comprehension of split_materials: p.strip(" .;") of each part.
TrimMaterials(parts) == [n \in 1..Len(parts) |-> StripBy(parts[n], IsMaterialTrim)]

\* The first comprehension: p.strip() of each part.
StripParts(parts) == [n \in 1..Len(parts) |-> Strip(parts[n])]

\* main.py split_materials()
split_materials(s) ==
    TrimMaterials(SelectSeq(StripParts(Split(s, 44)), LAMBDA p : p # << >>))

(***************************************************************************)
(* load_kb: the corpus parser.  Line positions are 1-based here (i = 1 is  *)
(* the source's i = 0); the corpus file is its sequence of lines, as       *)
(* read().splitlines() gives them.                                         *)
(***************************************************************************)

\* "if not ln: continue" of the scans: a line that strips to nothing.
IsBlank(ln) == Strip(ln) = EMPTY

\* lines = [ln.rstrip() for ln in ...]  (main.py line 494)
ReadLines(file) == [n \in 1..Len(file.lines) |-> RStrip(file.lines[n])]

\* The peek-ahead of the Course/Step/Module branches: j = i + 1, advanced
\* past blank lines.
PeekJ(lines, i) ==
    CHOOSE j \in (i + 1)..(Len(lines) + 1) :
        /\ \A r \in (i + 1)..(j - 1) : IsBlank(lines[r])
        /\ (j = Len(lines) + 1 \/ ~IsBlank(lines[j]))

\* The URL a header at line i takes from line j and the position the scan
\* continues at (past the consumed line, else past the header).
HeaderUrlAt(lines, i, j) ==
    IF j <= Len(lines) /\ URL_LINE_RE(Strip(lines[j]))
    THEN [url |-> UrlOf(Strip(lines[j])), next |-> j + 1]
    ELSE [url |-> EMPTY, next |-> i + 1]

HeaderUrl(lines, i) == HeaderUrlAt(lines, i, PeekJ(lines, i))

\* A sub-scan that stops only at the end of the document.
LessonEndAtDocumentEnd(lines, i) == Len(lines) + 1

\* Where the sub-scan of the lesson at line i stops: the next header of any
\* kind, or the end of the document.
LessonEnd(lines, i) ==
    CHOOSE j \in (i + 1)..(Len(lines) + 1) :
        /\ \A r \in (i + 1)..(j - 1) : ~IsHeader(Strip(lines[r]))
        /\ (j = Len(lines) + 1 \/ IsHeader(Strip(lines[j])))

\* The non-blank lines between the lesson header at line i and line j,
\* stripped, in order.
LessonBody(lines, i, j) ==
    SelectSeq([n \in 1..(j - i - 1) |-> Strip(lines[i + n])], LAMBDA c : c # EMPTY)

\* The if/else chain of the sub-scan (main.py lines 569-577): a link line,
\* else a homework line, else a section line.
BodyKind(cur) ==
    IF LESSON_URL_LINE_RE(cur) THEN "link"
    ELSE IF DZ_RE(cur) THEN "dz"
    ELSE "section"

BodyKinds(body) == [n \in 1..Len(body) |-> BodyKind(body[n])]

\* The last line of the given kind, or 0: each such line assigns the
\* variable anew, so the last one wins.
LastOfKind(kinds, kind) ==
    IF \A n \in 1..Len(kinds) : kinds[n] # kind THEN 0
    ELSE CHOOSE n \in 1..Len(kinds) :
             kinds[n] = kind /\ \A m \in (n + 1)..Len(kinds) : kinds[m] # kind

\* lesson_url after the sub-scan.
LessonUrl(body, kinds) ==
    With(LastOfKind(kinds, "link"), LAMBDA n :
        IF n = 0 THEN EMPTY ELSE LessonUrlOf(body[n]))

\* homework after the sub-scan.
Homework(body, kinds) ==
    With(LastOfKind(kinds, "dz"), LAMBDA n :
        IF n = 0 THEN EMPTY ELSE HomeworkOf(body[n]))

\* sections after the sub-scan.
Sections(body, kinds) ==
    [n \in 1..Len(SelectSeq(kinds, LAMBDA k : k = "section")) |->
        body[CHOOSE m \in 1..Len(body) :
                 /\ kinds[m] = "section"
                 /\ Cardinality({r \in 1..m : kinds[r] = "section"}) = n]]

\* lesson_blob = "\n".join(sections).strip()
LessonBlob(sections) == Strip(Join(sections, NEWLINE))

\* mats of one matched section line (main.py lines 589-590, 597-598).
MaterialsOf(raw) ==
    With(IF raw # EMPTY THEN split_materials(raw) ELSE EMPTY, LAMBDA mats :
        IF mats = EMPTY THEN << NoMaterial >> ELSE mats)

\* The (title, materials) pair of a section line that matched with m.
SectionItem(s, m) ==
    [sec_title |-> Strip(SubSeq(s, m.g, m.e - 1)),
     mats |-> MaterialsOf(Strip(SubSeq(s, m.c + 1, Len(s))))]

\* section_items (main.py lines 583-598): one pair per section line that
\* matches SECTION_FULL_RE, the placeholder pair when none matches.
RECURSIVE MatchedSections(_)
MatchedSections(sections) ==
    IF sections = EMPTY THEN EMPTY
    ELSE With(SectionMatch(Strip(Head(sections))), LAMBDA m :
             (IF m.ok THEN << SectionItem(Strip(Head(sections)), m) >> ELSE EMPTY)
             \o MatchedSections(Tail(sections)))

\* section_items without the placeholder of lines 593-594.
SectionItemsNoSentinel(sections) == MatchedSections(sections)

\* section_items after lines 583-594.
SectionItems(sections) ==
    With(MatchedSections(sections), LAMBDA items :
        IF items = EMPTY
        THEN << [sec_title |-> EMPTY, mats |-> << NoMaterial >>] >>
        ELSE items)

\* The dict appended to KB_INDEX (main.py lines 601-620).  The constant
\* fields "type" and "kind" are left out: nothing reads them.
MicroItem(fr, lesson, sec_title, mat) ==
    [course_title   |-> fr.course_title,
     course_url     |-> fr.course_url,
     step_title     |-> fr.step_title,
     step_url       |-> fr.step_url,
     module_title   |-> fr.module_title,
     module_url     |-> fr.module_url,
     lesson_title   |-> lesson.lesson_title,
     lesson_url     |-> lesson.lesson_url,
     section_title  |-> sec_title,
     material_title |-> mat,
     homework       |-> lesson.homework,
     lesson_blob    |-> lesson.lesson_blob,
     text           |-> normalize(Join(<< fr.course_title, fr.step_title,
                                          fr.module_title, lesson.lesson_title,
                                          sec_title, mat, lesson.lesson_blob,
                                          lesson.homework >>, SPACE))]

\* One item per section, for its first material only.
SectionMicroItemsFirstOnly(fr, lesson, sec) ==
    << MicroItem(fr, lesson, sec.sec_title, sec.mats[1]) >>

\* The items of one section, in the order of its materials.
SectionMicroItems(fr, lesson, sec) ==
    [n \in 1..Len(sec.mats) |-> MicroItem(fr, lesson, sec.sec_title, sec.mats[n])]

\* The loops of lines 596-620: sections in order, materials in order.
RECURSIVE EmitItems(_, _, _)
EmitItems(fr, lesson, items) ==
    IF items = EMPTY THEN EMPTY
    ELSE SectionMicroItems(fr, lesson, Head(items))
         \o EmitItems(fr, lesson, Tail(items))

\* What the sub-scan over the body leaves in the lesson's locals.
LessonLocals(lesson_title, body, kinds) ==
    [lesson_title |-> lesson_title,
     lesson_url   |-> LessonUrl(body, kinds),
     homework     |-> Homework(body, kinds),
     sections     |-> Sections(body, kinds)]

\* Everything the Lesson branch appends for the lesson header at line i.
LessonMicroItems(fr, i) ==
    With(LessonBody(fr.lines, i, LessonEnd(fr.lines, i)), LAMBDA body :
    With(LessonLocals(Strip(fr.lines[i]), body, BodyKinds(body)), LAMBDA loc :
        EmitItems(fr,
                  [lesson_title |-> loc.lesson_title,
                   lesson_url   |-> loc.lesson_url,
                   homework     |-> loc.homework,
                   lesson_blob  |-> LessonBlob(loc.sections)],
                  SectionItems(loc.sections))))

\* The locals of load_kb at line 499-504, before the scan.
StartFrame(file) ==
    [lines |-> ReadLines(file), i |-> 1,
     course_title |-> EMPTY, course_url |-> EMPTY,
     step_title |-> EMPTY, step_url |-> EMPTY,
     module_title |-> EMPTY, module_url |-> EMPTY]

\* load_kb appending to the list it finds.
KeepIndex(index) == index

\* KB_INDEX = [] at lines 491, 496 and 503.
ResetIndex(index) == EMPTY

\* Which branch of the loop body line i takes (main.py lines 506-625).
LineKind(lines, i) ==
    IF IsBlank(lines[i]) THEN "blank" ELSE HeaderKind(Strip(lines[i]))

\* The Course branch with the scan left at the header line.
CourseBranchStays(fr) ==
    With(HeaderUrl(fr.lines, fr.i), LAMBDA h :
        [fr EXCEPT !.course_title = Strip(fr.lines[fr.i]),
                   !.course_url = h.url])

\* The Course branch (lines 511-523).
CourseBranch(fr) ==
    With(HeaderUrl(fr.lines, fr.i), LAMBDA h :
        [fr EXCEPT !.course_title = Strip(fr.lines[fr.i]),
                   !.course_url = h.url, !.i = h.next])

\* The Step branch without line 536: the module context stays.
StepBranchKeepsModule(fr) ==
    With(HeaderUrl(fr.lines, fr.i), LAMBDA h :
        [fr EXCEPT !.step_title = Strip(fr.lines[fr.i]),
                   !.step_url = h.url, !.i = h.next])

\* The Step branch (lines 525-538): it also empties the module context.
StepBranch(fr) ==
    With(HeaderUrl(fr.lines, fr.i), LAMBDA h :
        [fr EXCEPT !.step_title = Strip(fr.lines[fr.i]),
                   !.step_url = h.url,
                   !.module_title = EMPTY, !.module_url = EMPTY,
                   !.i = h.next])

\* The Module branch (lines 540-552).
ModuleBranch(fr) ==
    With(HeaderUrl(fr.lines, fr.i), LAMBDA h :
        [fr EXCEPT !.module_title = Strip(fr.lines[fr.i]),
                   !.module_url = h.url, !.i = h.next])

\* The Lesson branch (lines 554-623) leaves the context alone and moves to
\* the line that ended the sub-scan.
LessonBranch(fr) == [fr EXCEPT !.i = LessonEnd(fr.lines, fr.i)]

\* A blank line (line 507-509) or a line no test matches (line 625).
SkipLine(fr) == [fr EXCEPT !.i = fr.i + 1]

\* The locals after one iteration of "while i < len(lines)" on a line of
\* the given kind.
FrameAfter(fr, kind) ==
    IF kind = "course" THEN CourseBranch(fr)
    ELSE IF kind = "step" THEN StepBranch(fr)
    ELSE IF kind = "module" THEN ModuleBranch(fr)
    ELSE IF kind = "lesson" THEN LessonBranch(fr)
    ELSE SkipLine(fr)

\* KB_INDEX after that iteration.
IndexAfter(fr, index, kind) ==
    IF kind = "lesson" THEN index \o LessonMicroItems(fr, fr.i) ELSE index

RECURSIVE RunLoop(_, _)
RunLoop(fr, index) ==
    IF fr.i > Len(fr.lines) THEN index
    ELSE With(LineKind(fr.lines, fr.i), LAMBDA kind :
             RunLoop(FrameAfter(fr, kind), IndexAfter(fr, index, kind)))

\* KB_INDEX after a whole call of load_kb() on the corpus file.
ParseDoc(file) ==
    IF ~file.exists \/ Len(file.lines) = 0 THEN EMPTY
    ELSE RunLoop(StartFrame(file), EMPTY)

(***************************************************************************)
(* Candidate search: the lexical scorer, the vector search and the hybrid  *)
(* entry point.  The functions read the globals KB_INDEX and KB_EMB_VECS,  *)
(* which the operators take as the parameters index and vecs.  A score is  *)
(* kept in tenths (1.0 is 10), a cosine as the exact fraction of its       *)
(* signed square, so that every comparison of the source is exact.         *)
(***************************************************************************)

\* The words of the source, as code points.
W_vann == << 1074, 1072, 1085, 1085 >>  \* "ванн"

W_sanuz == << 1089, 1072, 1085, 1091, 1079 >>  \* "сануз"

W_tualet == << 1090, 1091, 1072, 1083, 1077, 1090 >>  \* "туалет"

W_wc == << 119, 99 >>  \* "wc"

W_bath == << 98, 97, 116, 104 >>  \* "bath"

W_3d == << 51, 100 >>  \* "3d"

W_3d_ru == << 51, 1076 >>  \* "3д"

W_kollazh == << 1082, 1086, 1083, 1083, 1072, 1078 >>  \* "коллаж"

W_moodboard == << 109, 111, 111, 100, 98, 111, 97, 114, 100 >>  \* "moodboard"

W_photoshop == << 112, 104, 111, 116, 111, 115, 104, 111, 112 >>  \* "photoshop"

W_fotoshop == << 1092, 1086, 1090, 1086, 1096, 1086, 1087 >>  \* "фотошоп"

W_mid_ru == << 1084, 1080, 1076 >>  \* "мид"

W_mid == << 109, 105, 100 >>  \* "mid"

W_eko == << 1101, 1082, 1086 >>  \* "эко"

W_eco == << 101, 99, 111 >>  \* "eco"

W_sanuzel == << 1089, 1072, 1085, 1091, 1079, 1077, 1083 >>  \* "санузел"

W_sanuzly == << 1089, 1072, 1085, 1091, 1079, 1083, 1099 >>  \* "санузлы"

W_bathroom == << 98, 97, 116, 104, 114, 111, 111, 109 >>  \* "bathroom"

W_vannaya == << 1074, 1072, 1085, 1085, 1072, 1103 >>  \* "ванная"

W_vanna == << 1074, 1072, 1085, 1085, 1072 >>  \* "ванна"

W_3d_kollazh_ru == << 51, 1076, 32, 1082, 1086, 1083, 1083, 1072, 1078 >>  \* "3д коллаж"

W_3d_collage == << 51, 100, 32, 99, 111, 108, 108, 97, 103, 101 >>  \* "3d collage"

W_mudbord == << 1084, 1091, 1076, 1073, 1086, 1088, 1076 >>  \* "мудборд"

W_ps == << 112, 115 >>  \* "ps"

W_adobe_photoshop == << 97, 100, 111, 98, 101, 32, 112, 104, 111, 116, 111, 115, 104, 111, 112 >>  \* "adobe photoshop"

W_mid_senchuri == << 1084, 1080, 1076, 45, 1089, 1077, 1085, 1095, 1091, 1088, 1080 >>  \* "мид-сенчури"

W_mid_century == << 109, 105, 100, 45, 99, 101, 110, 116, 117, 114, 121 >>  \* "mid-century"

W_mid_century_sp == << 109, 105, 100, 32, 99, 101, 110, 116, 117, 114, 121 >>  \* "mid century"

W_midsenchuri == << 1084, 1080, 1076, 1089, 1077, 1085, 1095, 1091, 1088, 1080 >>  \* "мидсенчури"

W_eko_stil == << 1101, 1082, 1086, 45, 1089, 1090, 1080, 1083, 1100 >>  \* "эко-стиль"

W_eco_style == << 101, 99, 111, 32, 115, 116, 121, 108, 101 >>  \* "eco style"

W_ekostil == << 1101, 1082, 1086, 1089, 1090, 1080, 1083, 1100 >>  \* "экостиль"

\* The character class [a-zа-я0-9] of line 774.
IsTermChar(c) == c \in 97..122 \/ c \in 1072..1103 \/ c \in 48..57

\* re.findall(r"[a-zа-я0-9]+", s): the maximal runs from position p on.
RECURSIVE TermRuns(_, _)
TermRuns(s, p) ==
    IF p > Len(s) THEN EMPTY
    ELSE IF ~IsTermChar(s[p]) THEN TermRuns(s, p + 1)
    ELSE With(SkipWhile(s, p, IsTermChar), LAMBDA e :
             << SubSeq(s, p, e - 1) >> \o TermRuns(s, e))

\* len(w) >= 3 at lines 774 and 776.
MinTermLen == 3

\* [w for w in re.findall(...) if len(w) >= 3]
LongRuns(s) == SelectSeq(TermRuns(s, 1), LAMBDA w : Len(w) >= MinTermLen)

\* The synonym lists of lines 756-772.
BathSynonyms == << W_sanuzel, W_sanuzly, W_tualet, W_bathroom, W_wc >>

WcSynonyms == << W_vannaya, W_vanna, W_bathroom >>

ThreeDSynonyms ==
    << W_3d_ru, W_3d, W_kollazh, W_3d_kollazh_ru, W_3d_collage, W_mudbord,
       W_moodboard >>

CollageSynonyms == << W_3d_ru, W_3d, W_3d_kollazh_ru, W_3d_collage >>

PhotoshopSynonyms == << W_ps, W_adobe_photoshop >>

MidSynonyms == << W_mid_senchuri, W_mid_century, W_mid_century_sp, W_midsenchuri >>

EcoSynonyms == << W_eko_stil, W_eco_style, W_ekostil >>

\* list if the test holds, else nothing: "if ...: expansions += list".
When(test, list) == IF test THEN list ELSE EMPTY

\* expansions of the normalized query q (lines 755-772).
KeywordExpansions(q) ==
    When(Contains(q, W_vann), BathSynonyms)
    \o When(Contains(q, W_sanuz) \/ Contains(q, W_tualet) \/ Contains(q, W_wc),
            WcSynonyms)
    \o When(Contains(q, W_3d) \/ Contains(q, W_3d_ru), ThreeDSynonyms)
    \o When(Contains(q, W_kollazh) \/ Contains(q, W_moodboard), CollageSynonyms)
    \o When(Contains(q, W_photoshop) \/ Contains(q, W_fotoshop), PhotoshopSynonyms)
    \o When(Contains(q, W_mid_ru) \/ Contains(q, W_mid), MidSynonyms)
    \o When(Contains(q, W_eko) \/ Contains(q, W_eco), EcoSynonyms)

\* The terms the expansions add (lines 775-776).
RECURSIVE ExpansionTerms(_)
ExpansionTerms(es) ==
    IF es = EMPTY THEN EMPTY
    ELSE LongRuns(normalize(Head(es))) \o ExpansionTerms(Tail(es))

\* terms without line 777: every occurrence of a term is kept.
WithDuplicates(seq) == seq

\* list(dict.fromkeys(seq)): the first occurrence of each element, in order.
RECURSIVE FromKeys(_)
FromKeys(seq) ==
    IF seq = EMPTY THEN EMPTY
    ELSE With(FromKeys(SubSeq(seq, 1, Len(seq) - 1)), LAMBDA d :
             IF \E n \in 1..Len(d) : d[n] = seq[Len(seq)] THEN d
             ELSE Append(d, seq[Len(seq)]))

\* terms at line 777, for the normalized query q.
QueryTerms(q) == FromKeys(LongRuns(q) \o ExpansionTerms(KeywordExpansions(q)))

\* need_bath (line 779).
NeedBath(q) ==
    \/ Contains(q, W_vann)
    \/ Contains(q, W_sanuz)
    \/ Contains(q, W_tualet)
    \/ Contains(q, W_bath)
    \/ Contains(q, W_wc)

\* bath_terms (line 780).
BathTerms == << W_sanuz, W_vann, W_tualet, W_bath, W_wc >>

\* The weights of lines 795-804, in tenths.  The float sums order as the
\* tenths do whenever at most one term matches an item; sums of several
\* terms that are equal in tenths can differ by an ulp as floats.
TextWeight == 10

MaterialWeight == 15

BlobWeight == 12

HomeworkWeight == 26

BathBonus == 30

\* Lines 794-801 with the homework weight subtracted instead of added.
TermScoreHomeworkPenalty(w, t, mt, lb, hw) ==
    (IF Contains(t, w) THEN TextWeight ELSE 0)
    + (IF Contains(mt, w) THEN MaterialWeight ELSE 0)
    + (IF Contains(lb, w) THEN BlobWeight ELSE 0)
    - (IF Contains(hw, w) THEN HomeworkWeight ELSE 0)

\* What one term adds to a score (lines 794-801).
TermScore(w, t, mt, lb, hw) ==
    (IF Contains(t, w) THEN TextWeight ELSE 0)
    + (IF Contains(mt, w) THEN MaterialWeight ELSE 0)
    + (IF Contains(lb, w) THEN BlobWeight ELSE 0)
    + (IF Contains(hw, w) THEN HomeworkWeight ELSE 0)

\* for w in terms: ... (lines 793-801)
RECURSIVE TermsScore(_, _, _, _, _)
TermsScore(terms, t, mt, lb, hw) ==
    IF terms = EMPTY THEN 0
    ELSE TermScore(Head(terms), t, mt, lb, hw)
         + TermsScore(Tail(terms), t, mt, lb, hw)

\* The bonus of lines 803-804.
BathScore(t, need_bath) ==
    IF need_bath /\ \E n \in 1..Len(BathTerms) : Contains(t, BathTerms[n])
    THEN BathBonus ELSE 0

\* score of one item (lines 788-804).
LexicalScore(it, terms, need_bath) ==
    TermsScore(terms, it.text, normalize(it.material_title),
               normalize(it.lesson_blob), normalize(it.homework))
    + BathScore(it.text, need_bath)

\* The score of every item of the index for the normalized query q; an
\* item without text is passed over (lines 783-786), which leaves it at 0.
KeywordScores(index, q) ==
    With(QueryTerms(q), LAMBDA terms :
        [n \in 1..Len(index) |->
            IF index[n].text = EMPTY THEN 0
            ELSE LexicalScore(index[n], terms, NeedBath(q))])

\* list.sort(key=..., reverse=True) on the positions S: a comes before b when
\* its key is greater, or equal with a the earlier one (the sort is stable).
ComesBefore(a, b, Gt(_, _)) == Gt(a, b) \/ (~Gt(b, a) /\ a < b)

SortDesc(S, Gt(_, _)) ==
    [r \in 1..Cardinality(S) |->
        CHOOSE a \in S : Cardinality({b \in S : ComesBefore(b, a, Gt)}) + 1 = r]

\* key at lines 740 and 814.
DedupKey(it) == << it.lesson_url, it.section_title, it.material_title >>

\* The loop of lines 813-820 (and of 738-746) without its test on seen.
RECURSIVE TakeRanked(_, _, _, _)
TakeRanked(ranked, k, seen, out) ==
    IF ranked = EMPTY THEN out
    ELSE IF Len(out) + 1 >= k THEN Append(out, Head(ranked))
    ELSE TakeRanked(Tail(ranked), k, seen, Append(out, Head(ranked)))

\* The loop of lines 813-820 (and of 738-746): an item whose key was seen is
\* passed over, another is appended, and the loop ends once out has k items.
RECURSIVE FirstOfEachKey(_, _, _, _)
FirstOfEachKey(ranked, k, seen, out) ==
    IF ranked = EMPTY THEN out
    ELSE IF DedupKey(Head(ranked)) \in seen
         THEN FirstOfEachKey(Tail(ranked), k, seen, out)
    ELSE IF Len(out) + 1 >= k THEN Append(out, Head(ranked))
    ELSE FirstOfEachKey(Tail(ranked), k, seen \cup {DedupKey(Head(ranked))},
                        Append(out, Head(ranked)))

\* The items of index at the given positions.
ItemsAt(index, positions) == [r \in 1..Len(positions) |-> index[positions[r]]]

\* The sort of line 809 done as an ascending sort that is then reversed:
\* items of equal score come out in reverse document order.
KeywordRankingTiesReversed(scores) ==
    SortDesc({n \in 1..Len(scores) : scores[n] > 0},
             LAMBDA a, b : scores[a] > scores[b] \/ (scores[a] = scores[b] /\ a > b))

\* scored after the sort of line 809, as positions of the index.
KeywordRanking(scores) ==
    SortDesc({n \in 1..Len(scores) : scores[n] > 0},
             LAMBDA a, b : scores[a] > scores[b])

\* main.py kb_candidates_keyword(query, k)
kb_candidates_keyword(index, query, k) ==
    IF query = EMPTY \/ index = EMPTY THEN EMPTY
    ELSE FirstOfEachKey(
             ItemsAt(index, KeywordRanking(KeywordScores(index, normalize(query)))),
             k, {}, EMPTY)

\* A call that returned value, and a call that an exception left.
Returned(value) == [raised |-> FALSE, value |-> value]

Raised == [raised |-> TRUE, value |-> EMPTY]

\* Optional[List[float]]: None, or a vector.
None == [none |-> TRUE, vec |-> EMPTY]

Some(vec) == [none |-> FALSE, vec |-> vec]

\* openai_embed with its try/except removed: a failed request raises.
OpenaiEmbedUncaught(reply) ==
    IF reply.ok THEN Returned(Some(reply.embedding)) ELSE Raised

\* main.py openai_embed(text), given how the embeddings endpoint answers:
\* reply.ok is FALSE when the request raises (network, HTTP or API error).
openai_embed(reply) ==
    IF reply.ok THEN Returned(Some(reply.embedding)) ELSE Returned(None)

RECURSIVE Dot(_, _)
Dot(a, b) ==
    IF a = EMPTY THEN 0 ELSE Head(a) * Head(b) + Dot(Tail(a), Tail(b))

\* -1.0 as a fraction.
MinusOne == [num |-> -1, den |-> 1]

\* dot / (sqrt(na) * sqrt(nb)) as its signed square dot*|dot| / (na*nb),
\* which orders as the cosine does.  The floating-point quotient agrees
\* with the exact one on every comparison made here when the vectors have
\* at most two components, each in -2..2; in three dimensions the float
\* can land one ulp above an exact -0.5.
SignedSquare(dot, na, nb) ==
    IF na <= 0 \/ nb <= 0 THEN MinusOne
    ELSE [num |-> IF dot < 0 THEN -(dot * dot) ELSE dot * dot, den |-> na * nb]

\* main.py _cosine(a, b)
cosine(a, b) ==
    IF a = EMPTY \/ b = EMPTY \/ Len(a) # Len(b) THEN MinusOne
    ELSE SignedSquare(Dot(a, b), Dot(a, a), Dot(b, b))

\* x > y for two fractions with positive denominators.
FracGt(x, y) == x.num * y.den > y.num * x.den

\* sim > -0.5 (line 731): the signed square of -0.5 is -1/4.
AboveFloor(sim) == 4 * sim.num > -sim.den

\* The over-fetch of line 738: max(k * 4, 40).
OverFetchFactor == 4

OverFetchFloor == 40

OverFetch(k) == IF k * OverFetchFactor > OverFetchFloor THEN k * OverFetchFactor ELSE OverFetchFloor

\* seq[:n] for n >= 0.
Prefix(seq, n) == SubSeq(seq, 1, IF n < Len(seq) THEN n ELSE Len(seq))

\* The similarities of the first n positions (lines 729-730).
Similarities(vecs, qvec, n) == [i \in 1..n |-> cosine(qvec, vecs[i])]

\* scored after the sort of line 734, as positions of the index.
SemanticRanking(sims) ==
    SortDesc({i \in 1..Len(sims) : AboveFloor(sims[i])},
             LAMBDA a, b : FracGt(sims[a], sims[b]))

\* min(len(KB_INDEX), len(KB_EMB_VECS)) at line 724.
Aligned(index, vecs) == IF Len(index) < Len(vecs) THEN Len(index) ELSE Len(vecs)

\* Lines 724-747 with the duplicates dropped over the whole ranking, before
\* the cut of line 738.
SemanticSearchDedupFirst(index, vecs, qvec, k) ==
    FirstOfEachKey(
        ItemsAt(index, SemanticRanking(Similarities(vecs, qvec, Aligned(index, vecs)))),
        k, {}, EMPTY)

\* Lines 724-747, for a query vector.
SemanticSearch(index, vecs, qvec, k) ==
    FirstOfEachKey(
        ItemsAt(index,
                Prefix(SemanticRanking(Similarities(vecs, qvec, Aligned(index, vecs))),
                       OverFetch(k))),
        k, {}, EMPTY)

\* Lines 720-747, for what openai_embed gave.
SemanticWith(index, vecs, embedded, k) ==
    IF embedded.raised THEN Raised
    ELSE IF embedded.value.none \/ embedded.value.vec = EMPTY THEN Returned(EMPTY)
    ELSE Returned(SemanticSearch(index, vecs, embedded.value.vec, k))

\* main.py kb_candidates_semantic(query, k); reply is the answer of the
\* embeddings endpoint, asked only when line 716 lets the call through.
kb_candidates_semantic(index, vecs, query, k, reply) ==
    IF query = EMPTY \/ index = EMPTY \/ vecs = EMPTY THEN Returned(EMPTY)
    ELSE SemanticWith(index, vecs, openai_embed(reply), k)

\* kb_candidates without its last line: the semantic result, whatever it is.
SemanticOnly(index, vecs, query, k, reply) ==
    kb_candidates_semantic(index, vecs, query, k, reply)

\* Lines 826-828, for the result sem of the semantic search.
OrKeyword(sem, index, query, k) ==
    IF sem.raised THEN Raised
    ELSE IF sem.value # EMPTY THEN sem
    ELSE Returned(kb_candidates_keyword(index, query, k))

\* main.py kb_candidates(query, k)
kb_candidates(index, vecs, query, k, reply) ==
    OrKeyword(kb_candidates_semantic(index, vecs, query, k, reply), index, query, k)

\* Lines 681-686 of load_embeddings: the table kept for the vectors read.
AlignVectors(index, read) ==
    IF index # EMPTY /\ Len(read) >= Len(index) THEN SubSeq(read, 1, Len(index))
    ELSE read

(***************************************************************************)
(* The LLM selector.  The judge's text enters the model as what json.loads *)
(* makes of it: no JSON at all, or a JSON value.  A JSON value is a record *)
(* [t, n, items]: t its type, n its number (an integer's value, 1 or 0 for *)
(* a boolean, the length of a string, the number of keys of an object),    *)
(* items the elements of an array or, for an object that has the key       *)
(* "pick", the one-element list of its value.                              *)
(***************************************************************************)

JNull == [t |-> "null", n |-> 0, items |-> EMPTY]

JBool(b) == [t |-> "bool", n |-> IF b THEN 1 ELSE 0, items |-> EMPTY]

JInt(n) == [t |-> "int", n |-> n, items |-> EMPTY]

\* A float, zero or not.
JFloat(nonzero) == [t |-> "float", n |-> IF nonzero THEN 1 ELSE 0, items |-> EMPTY]

JStr(len) == [t |-> "string", n |-> len, items |-> EMPTY]

JArr(items) == [t |-> "array", n |-> Len(items), items |-> items]

\* {"pick": pick, "reason": ...}
JObj(pick) == [t |-> "object", n |-> 2, items |-> << pick >>]

\* An object of the given number of keys, none of them "pick".
JObjNoPick(keys) == [t |-> "object", n |-> keys, items |-> EMPTY]

\* A text json.loads rejects, and a text it reads as value.
NotJson == [json |-> FALSE, value |-> JNull]

JsonText(value) == [json |-> TRUE, value |-> value]

\* The fixed apology of line 230: plain prose, not JSON.
Apology == NotJson

\* main.py openai_chat(messages), given how the chat endpoint answers:
\* reply.ok is FALSE when the request raises, and then the apology is returned.
openai_chat(reply) == IF reply.ok THEN reply.content ELSE Apology

\* json.loads(raw) at line 868.
json_loads(raw) == IF raw.json THEN Returned(raw.value) ELSE Raised

\* data.get("pick", []) at line 869: only a dict has get.
GetPick(data) ==
    IF data.t # "object" THEN Raised
    ELSE Returned(IF data.items # EMPTY THEN data.items[1] ELSE JArr(EMPTY))

\* Python's truth value of a JSON value ("if not picks" at line 870).
Truthy(v) == v.n # 0

\* candidates[:20] at lines 835 and 874.
JudgeWindow == 20

\* picks[:3] at line 873.
MaxChosen == 3

\* picks without the cut at three of line 873.
AllPicks(items) == items

\* picks[:3] for a list.
FirstPicks(items) == Prefix(items, MaxChosen)

\* picks[:3] at line 873: a list gives its first three elements, a string
\* its first three characters (one-character strings), and a number, a
\* boolean or an object cannot be sliced.
Sliced(picks) ==
    IF picks.t = "array" THEN Returned(FirstPicks(picks.items))
    ELSE IF picks.t = "string"
    THEN Returned([c \in 1..(IF picks.n < MaxChosen THEN picks.n ELSE MaxChosen)
                      |-> JStr(1)])
    ELSE Raised

\* isinstance(p, int) and 1 <= p <= len(candidates[:20]) at line 874; a
\* boolean is an int in Python.
ValidPick(p, candidates) ==
    /\ p.t \in {"int", "bool"}
    /\ 1 <= p.n
    /\ p.n <= Len(Prefix(candidates, JudgeWindow))

\* chosen after the loop of lines 873-875.
RECURSIVE Chosen(_, _)
Chosen(picks, candidates) ==
    IF picks = EMPTY THEN EMPTY
    ELSE When(ValidPick(Head(picks), candidates), << candidates[Head(picks).n] >>)
         \o Chosen(Tail(picks), candidates)

\* "if not picks: return []" with the top candidate returned instead.
NoPicksAsFailure(candidates) == Prefix(candidates, 1)

\* return [] at line 871.
NoPicks(candidates) == EMPTY

\* Lines 870-876, for the value of "pick".
SelectFrom(picks, candidates) ==
    IF ~Truthy(picks) THEN Returned(NoPicks(candidates))
    ELSE With(Sliced(picks), LAMBDA cut :
             IF cut.raised THEN Raised
             ELSE Returned(Chosen(cut.value, candidates)))

\* Lines 869-876, for the parsed response.
SelectWith(data, candidates) ==
    With(GetPick(data), LAMBDA picks :
        IF picks.raised THEN Raised ELSE SelectFrom(picks.value, candidates))

\* The try block of lines 867-876.
TrySelect(raw, candidates) ==
    With(json_loads(raw), LAMBDA data :
        IF data.raised THEN Raised ELSE SelectWith(data.value, candidates))

\* The handler of line 877 returning nothing.
OnExceptionNothing(candidates) == EMPTY

\* return candidates[:1] at line 878.
OnException(candidates) == Prefix(candidates, 1)

\* main.py kb_select_with_llm(user_query, candidates); reply is the answer
\* of the chat endpoint to the judge prompt.
kb_select_with_llm(candidates, reply) ==
    IF candidates = EMPTY THEN Returned(EMPTY)
    ELSE With(TrySelect(openai_chat(reply), candidates), LAMBDA r :
             IF r.raised THEN Returned(OnException(candidates)) ELSE r)

(***************************************************************************)
(* The presentation of a selection: best_material_name,                    *)
(* dedupe_hits_by_lesson and format_kb_hits.  A text is the sequence of    *)
(* its code points, and the fixed parts of the output are spelled out.     *)
(***************************************************************************)

\* '\n\n(books) <b>Нашла в обучении:</b>' (line 911)
F_found ==
    << 10, 10, 128218, 32, 60, 98, 62, 1053, 1072, 1096, 1083, 1072, 32,
       1074, 32, 1086, 1073, 1091, 1095, 1077, 1085, 1080, 1080, 58, 60,
       47, 98, 62 >>

\* '\n(pin) <b>Материал:</b> Видеоурок' (line 913)
F_block ==
    << 10, 128204, 32, 60, 98, 62, 1052, 1072, 1090, 1077, 1088, 1080,
       1072, 1083, 58, 60, 47, 98, 62, 32, 1042, 1080, 1076, 1077, 1086,
       1091, 1088, 1086, 1082 >>

\* '\n<b>Где лежит в программе:</b>' (line 915)
F_where ==
    << 10, 60, 98, 62, 1043, 1076, 1077, 32, 1083, 1077, 1078, 1080, 1090,
       32, 1074, 32, 1087, 1088, 1086, 1075, 1088, 1072, 1084, 1084, 1077,
       58, 60, 47, 98, 62 >>

\* '— <b>Ступень:</b> ' (line 917)
F_step ==
    << 8212, 32, 60, 98, 62, 1057, 1090, 1091, 1087, 1077, 1085, 1100, 58,
       60, 47, 98, 62, 32 >>

\* '— <b>Модуль:</b> ' (line 919)
F_module ==
    << 8212, 32, 60, 98, 62, 1052, 1086, 1076, 1091, 1083, 1100, 58, 60,
       47, 98, 62, 32 >>

\* '— <b>Урок:</b> ' (line 921)
F_lesson ==
    << 8212, 32, 60, 98, 62, 1059, 1088, 1086, 1082, 58, 60, 47, 98, 62,
       32 >>

\* '— <b>Раздел:</b> ' (line 923)
F_section ==
    << 8212, 32, 60, 98, 62, 1056, 1072, 1079, 1076, 1077, 1083, 58, 60,
       47, 98, 62, 32 >>

\* '\n<b>Название материала:</b> ' (line 925)
F_material_name ==
    << 10, 60, 98, 62, 1053, 1072, 1079, 1074, 1072, 1085, 1080, 1077, 32,
       1084, 1072, 1090, 1077, 1088, 1080, 1072, 1083, 1072, 58, 60, 47,
       98, 62, 32 >>

\* '\n<b>Ссылка:</b>\n' (line 929)
F_link ==
    << 10, 60, 98, 62, 1057, 1089, 1099, 1083, 1082, 1072, 58, 60, 47, 98,
       62, 10 >>

\* '\n<b>Домашнее задание:</b>' (line 933)
F_homework ==
    << 10, 60, 98, 62, 1044, 1086, 1084, 1072, 1096, 1085, 1077, 1077, 32,
       1079, 1072, 1076, 1072, 1085, 1080, 1077, 58, 60, 47, 98, 62 >>

\* '(материал)' (line 888)
NoMaterialName ==
    << 40, 1084, 1072, 1090, 1077, 1088, 1080, 1072, 1083, 41 >>

\* '…' (line 886)
ELLIPSIS ==
    << 8230 >>

\* hw[:240] at line 886.
HomeworkLimit == 240

\* The truncation of line 886 without its ellipsis.
ShortenNoEllipsis(hw) ==
    IF Len(hw) <= HomeworkLimit THEN hw ELSE RStrip(Prefix(hw, HomeworkLimit))

\* hw if len(hw) <= 240 else (hw[:240].rstrip() + "...") at line 886.
Shorten(hw) ==
    IF Len(hw) <= HomeworkLimit THEN hw
    ELSE RStrip(Prefix(hw, HomeworkLimit)) \o ELLIPSIS

\* The test on q at line 885.
AsksCollage(q) ==
    Contains(q, W_kollazh) \/ Contains(q, W_3d_ru) \/ Contains(q, W_3d)

\* The name of line 888 for every query and item.
MaterialTitleOnly(q, hw, mat) == IF mat # EMPTY THEN mat ELSE NoMaterialName

\* Lines 885-888, for the stripped homework and material title.
MaterialNameOf(q, hw, mat) ==
    IF AsksCollage(q) /\ hw # EMPTY THEN Shorten(hw)
    ELSE IF mat # EMPTY THEN mat ELSE NoMaterialName

\* main.py best_material_name(it, user_query)
best_material_name(it, user_query) ==
    MaterialNameOf(normalize(user_query), Strip(it.homework), Strip(it.material_title))

\* (url or "").strip() or (title or "").strip()
StrippedOr(url, title) == IF Strip(url) # EMPTY THEN Strip(url) ELSE Strip(title)

\* A key that tells the sections of a lesson apart.
KeyPerSection(it) ==
    StrippedOr(it.lesson_url, it.lesson_title) \o NEWLINE \o it.section_title

\* key at line 896: the stripped link or, without one, the stripped title.
LessonKey(it) == StrippedOr(it.lesson_url, it.lesson_title)

\* The loop of lines 895-902.
RECURSIVE DedupeFrom(_, _, _)
DedupeFrom(hits, seen, out) ==
    IF hits = EMPTY THEN out
    ELSE With(LessonKey(Head(hits)), LAMBDA key :
             IF key = EMPTY \/ key \in seen THEN DedupeFrom(Tail(hits), seen, out)
             ELSE DedupeFrom(Tail(hits), seen \cup {key}, Append(out, Head(hits))))

\* main.py dedupe_hits_by_lesson(hits)
dedupe_hits_by_lesson(hits) ==
    IF hits = EMPTY THEN EMPTY ELSE DedupeFrom(hits, {}, EMPTY)

\* hits[:3] at line 912.
MaxBlocks == 3

\* What the body of the loop of lines 912-934 appends to out for one item.
BlockLines(it, user_query) ==
    << F_block, F_where >>
    \o When(it.step_title # EMPTY, << F_step \o it.step_title >>)
    \o When(it.module_title # EMPTY, << F_module \o it.module_title >>)
    \o When(it.lesson_title # EMPTY, << F_lesson \o it.lesson_title >>)
    \o When(it.section_title # EMPTY, << F_section \o it.section_title >>)
    \o << F_material_name \o best_material_name(it, user_query) >>
    \o When(it.lesson_url # EMPTY, << F_link \o it.lesson_url >>)
    \o When(Strip(it.homework) # EMPTY, << F_homework, Strip(it.homework) >>)

\* out after the loop of lines 911-934, for the de-duplicated hits.
FormatLines(hits, user_query) ==
    << F_found >>
    \o Concat([n \in 1..Len(Prefix(hits, MaxBlocks)) |-> BlockLines(hits[n], user_query)])

\* main.py format_kb_hits(hits, user_query)
format_kb_hits(hits, user_query) ==
    IF hits = EMPTY THEN EMPTY
    ELSE Strip(Join(FormatLines(dedupe_hits_by_lesson(hits), user_query), NEWLINE))

(***************************************************************************)
(* The part of the webhook handler that finds lessons for a question:      *)
(* should_show_kb_links and lines 1277-1281.                               *)
(***************************************************************************)

\* The words of lines 437-441.
LocatorWords ==
    { << 1075, 1076, 1077 >>,  \* "где"
      << 1074, 32, 1082, 1072, 1082, 1086, 1084 >>,  \* "в каком"
      << 1082, 1072, 1082, 1086, 1081 >>,  \* "какой"
      << 1083, 1077, 1078, 1080, 1090 >>,  \* "лежит"
      << 1085, 1072, 1081, 1090, 1080 >>,  \* "найти"
      << 1086, 1090, 1082, 1088, 1099, 1090, 1100 >>,  \* "открыть"
      << 1087, 1086, 1089, 1084, 1086, 1090, 1088, 1077, 1090, 1100 >>,  \* "посмотреть"
      << 1074, 32, 1082, 1091, 1088, 1089, 1077 >>,  \* "в курсе"
      << 1074, 32, 1086, 1073, 1091, 1095, 1077, 1085, 1080, 1080 >>,  \* "в обучении"
      << 1074, 32, 1087, 1088, 1086, 1075, 1088, 1072, 1084, 1084, 1077 >>,  \* "в программе"
      << 1074, 32, 1084, 1086, 1076, 1091, 1083, 1077 >>,  \* "в модуле"
      << 1074, 32, 1089, 1090, 1091, 1087, 1077, 1085, 1080 >>,  \* "в ступени"
      << 1084, 1086, 1076, 1091, 1083, 1100 >>,  \* "модуль"
      << 1089, 1090, 1091, 1087, 1077, 1085, 1100 >>,  \* "ступень"
      << 1088, 1072, 1079, 1076, 1077, 1083 >>  \* "раздел"
    }

\* The alternatives of COURSE_LOCATOR_RE (lines 405-407), each as its words;
\* the pattern has \s+ between two words.
LocatorPhrases ==
    { \* "в каком уроке"
      << << 1074 >>,
         << 1082, 1072, 1082, 1086, 1084 >>,
         << 1091, 1088, 1086, 1082, 1077 >> >>,
      \* "какой урок"
      << << 1082, 1072, 1082, 1086, 1081 >>,
         << 1091, 1088, 1086, 1082 >> >>,
      \* "где в курсе"
      << << 1075, 1076, 1077 >>,
         << 1074 >>,
         << 1082, 1091, 1088, 1089, 1077 >> >>,
      \* "где это в обучении"
      << << 1075, 1076, 1077 >>,
         << 1101, 1090, 1086 >>,
         << 1074 >>,
         << 1086, 1073, 1091, 1095, 1077, 1085, 1080, 1080 >> >>,
      \* "где посмотрет"
      << << 1075, 1076, 1077 >>,
         << 1087, 1086, 1089, 1084, 1086, 1090, 1088, 1077, 1090 >> >>,
      \* "в каком модул"
      << << 1074 >>,
         << 1082, 1072, 1082, 1086, 1084 >>,
         << 1084, 1086, 1076, 1091, 1083 >> >>,
      \* "в какой ступен"
      << << 1074 >>,
         << 1082, 1072, 1082, 1086, 1081 >>,
         << 1089, 1090, 1091, 1087, 1077, 1085 >> >>,
      \* "лежит в программе"
      << << 1083, 1077, 1078, 1080, 1090 >>,
         << 1074 >>,
         << 1087, 1088, 1086, 1075, 1088, 1072, 1084, 1084, 1077 >> >>,
      \* "открыть урок"
      << << 1086, 1090, 1082, 1088, 1099, 1090, 1100 >>,
         << 1091, 1088, 1086, 1082 >> >>,
      \* "найти урок"
      << << 1085, 1072, 1081, 1090, 1080 >>,
         << 1091, 1088, 1086, 1082 >> >> }

\* The words match the text l from position p on, with white space between them.
RECURSIVE PhraseAt(_, _, _)
PhraseAt(l, p, words) ==
    /\ StartsAt(l, p, Head(words))
    /\ \/ Len(words) = 1
       \/ With(SkipWhile(l, p + Len(Head(words)), IsSpace), LAMBDA q :
              q > p + Len(Head(words)) /\ PhraseAt(l, q, Tail(words)))

\* COURSE_LOCATOR_RE.search(text), case ignored.
COURSE_LOCATOR_RE(text) ==
    With(Lower(text), LAMBDA l :
        \E p \in 1..Len(l) : \E words \in LocatorPhrases : PhraseAt(l, p, words))

\* main.py should_show_kb_links(text)
should_show_kb_links(text) ==
    IF text = EMPTY THEN FALSE
    ELSE With(normalize(text), LAMBDA t :
             \/ Contains(t, L_urok) /\ \E w \in LocatorWords : Contains(t, w)
             \/ COURSE_LOCATOR_RE(text))

\* k=20 at line 1279.
HandlerK == 20

\* The locals cand, picked and kb_block of the handler after line 1281.
Locals(cand, picked, kb_block) ==
    [raised |-> FALSE, value |-> kb_block, cand |-> cand, picked |-> picked]

\* Lines 1280-1281 for the candidates cand.
PickAndFormat(cand, text, chat) ==
    With(kb_select_with_llm(cand, chat).value, LAMBDA picked :
        Locals(cand, picked, format_kb_hits(picked, text)))

\* Lines 1277-1281 of webhook: kb_block for the question text, given the
\* answers of the embeddings endpoint and of the judge.
KbBlock(index, vecs, text, embed, chat) ==
    IF ~should_show_kb_links(text) THEN Locals(EMPTY, EMPTY, EMPTY)
    ELSE PickAndFormat(kb_candidates(index, vecs, text, HandlerK, embed).value, text, chat)

(***************************************************************************)
(* The list of the lessons of a module: format_module_lessons.             *)
(***************************************************************************)

\* 'База знаний пока не загружена (pray)' (line 940)
M_not_loaded ==
    << 1041, 1072, 1079, 1072, 32, 1079, 1085, 1072, 1085, 1080, 1081, 32,
       1087, 1086, 1082, 1072, 32, 1085, 1077, 32, 1079, 1072, 1075, 1088,
       1091, 1078, 1077, 1085, 1072, 32, 128591 >>

\* 'Не нашла модуль ' (line 950)
M_not_found ==
    << 1053, 1077, 32, 1085, 1072, 1096, 1083, 1072, 32, 1084, 1086, 1076,
       1091, 1083, 1100, 32 >>

\* ' в базе (pray) Если скажешь точное название модуля — найду точнее.'
M_not_found_tail ==
    << 32, 1074, 32, 1073, 1072, 1079, 1077, 32, 128591, 32, 1045, 1089,
       1083, 1080, 32, 1089, 1082, 1072, 1078, 1077, 1096, 1100, 32, 1090,
       1086, 1095, 1085, 1086, 1077, 32, 1085, 1072, 1079, 1074, 1072, 1085,
       1080, 1077, 32, 1084, 1086, 1076, 1091, 1083, 1103, 32, 8212, 32,
       1085, 1072, 1081, 1076, 1091, 32, 1090, 1086, 1095, 1085, 1077, 1077,
       46 >>

\* 'В модуле ' (line 964)
M_no_titles ==
    << 1042, 32, 1084, 1086, 1076, 1091, 1083, 1077, 32 >>

\* ' нашлись записи, но без названий уроков. Проверь формат knowledge.txt (pray)'
M_no_titles_tail ==
    << 32, 1085, 1072, 1096, 1083, 1080, 1089, 1100, 32, 1079, 1072, 1087,
       1080, 1089, 1080, 44, 32, 1085, 1086, 32, 1073, 1077, 1079, 32, 1085,
       1072, 1079, 1074, 1072, 1085, 1080, 1081, 32, 1091, 1088, 1086, 1082,
       1086, 1074, 46, 32, 1055, 1088, 1086, 1074, 1077, 1088, 1100, 32,
       1092, 1086, 1088, 1084, 1072, 1090, 32, 107, 110, 111, 119, 108, 101,
       100, 103, 101, 46, 116, 120, 116, 32, 128591 >>

\* '(books) <b>Модуль ' (line 976)
M_header ==
    << 128218, 32, 60, 98, 62, 1052, 1086, 1076, 1091, 1083, 1100, 32 >>

\* ': уроки</b>\n'
M_header_tail ==
    << 58, 32, 1091, 1088, 1086, 1082, 1080, 60, 47, 98, 62, 10 >>

\* '— <b>' (lines 980 and 982)
M_item ==
    << 8212, 32, 60, 98, 62 >>

\* '</b>\n'
M_item_tail ==
    << 60, 47, 98, 62, 10 >>

\* '(ссылка не указана в базе)' (line 982)
M_no_link ==
    << 40, 1089, 1089, 1099, 1083, 1082, 1072, 32, 1085, 1077, 32, 1091,
       1082, 1072, 1079, 1072, 1085, 1072, 32, 1074, 32, 1073, 1072, 1079,
       1077, 41 >>

\* '\nЕсли хочешь — уточни тему (например: «3D коллаж ванной»), и я дам
\* точный урок и раздел.' (line 984)
M_hint ==
    << 10, 1045, 1089, 1083, 1080, 32, 1093, 1086, 1095, 1077, 1096, 1100,
       32, 8212, 32, 1091, 1090, 1086, 1095, 1085, 1080, 32, 1090, 1077,
       1084, 1091, 32, 40, 1085, 1072, 1087, 1088, 1080, 1084, 1077, 1088,
       58, 32, 171, 51, 68, 32, 1082, 1086, 1083, 1083, 1072, 1078, 32,
       1074, 1072, 1085, 1085, 1086, 1081, 187, 41, 44, 32, 1080, 32, 1103,
       32, 1076, 1072, 1084, 32, 1090, 1086, 1095, 1085, 1099, 1081, 32,
       1091, 1088, 1086, 1082, 32, 1080, 32, 1088, 1072, 1079, 1076, 1077,
       1083, 46 >>

\* str(n) for n >= 0.
RECURSIVE Str(_)
Str(n) == IF n < 10 THEN << 48 + n >> ELSE Append(Str(n \div 10), 48 + (n % 10))

\* int(s) for a run of digits.
RECURSIVE Int_(_)
Int_(s) == IF s = EMPTY THEN 0 ELSE 10 * Int_(SubSeq(s, 1, Len(s) - 1)) + (s[Len(s)] - 48)

\* re.search(rf"(^|\s){target}\s*модул", mt) at line 946.
ModuleMatches(mt, target) ==
    \E p \in 1..Len(mt) :
        /\ (p = 1 \/ IsSpace(mt[p - 1]))
        /\ StartsAt(mt, p, target)
        /\ StartsAt(mt, SkipWhile(mt, p + Len(target), IsSpace), L_modul)

\* mt at line 945.
ModuleKey(it) == FoldYo(Lower(Strip(it.module_title)))

\* module_hits after the loop of lines 944-947.
ModuleHits(index, module_num) ==
    SelectSeq(index, LAMBDA it : ModuleMatches(ModuleKey(it), Str(module_num)))

\* The keys of the dict lessons, in the order of their insertion.
RECURSIVE LessonTitles(_, _)
LessonTitles(hits, titles) ==
    IF hits = EMPTY THEN titles
    ELSE With(Strip(Head(hits).lesson_title), LAMBDA lt :
             LessonTitles(Tail(hits),
                          IF lt = EMPTY \/ lt \in SeqSet(titles) THEN titles
                          ELSE Append(titles, lt)))

\* lessons[lt]["url"] after the loop of lines 953-961: the first non-empty
\* link among the hits of that title.
LessonLink(hits, lt) ==
    With(SelectSeq(hits, LAMBDA it : Strip(it.lesson_title) = lt /\ Strip(it.lesson_url) # EMPTY),
         LAMBDA linked : IF linked = EMPTY THEN EMPTY ELSE Strip(linked[1].lesson_url))

\* The places of l where (\d+)\s*урок matches.
IndexStarts(l) ==
    { p \in 1..Len(l) :
        /\ IsDigit(l[p])
        /\ StartsAt(l, SkipWhile(l, SkipWhile(l, p, IsDigit), IsSpace), L_urok) }

\* 10**9 at line 971.
NoIndexKey == 1000000000

\* The first component of lesson_sort_key(title) (lines 967-971).
LessonIndex(title) ==
    With(Lower(title), LAMBDA l :
    With(IndexStarts(l), LAMBDA S :
        IF S = {} THEN NoIndexKey
        ELSE With(CHOOSE p \in S : \A q \in S : p <= q, LAMBDA p :
                 Int_(SubSeq(l, p, SkipWhile(l, p, IsDigit) - 1)))))

\* a < b for two Python strings.
StrLess(a, b) ==
    \E n \in 1..(Len(b)) :
        /\ \A m \in 1..(n - 1) : m <= Len(a) /\ a[m] = b[m]
        /\ (n > Len(a) \/ a[n] < b[n])

\* A sort key that is the title alone.
KeyLessByTitle(a, b) == StrLess(a, b)

\* lesson_sort_key(a) < lesson_sort_key(b), as Python compares tuples.
KeyLess(a, b) ==
    \/ LessonIndex(a) < LessonIndex(b)
    \/ LessonIndex(a) = LessonIndex(b) /\ StrLess(a, b)

\* ordered at line 973: the titles by their sort keys (the titles are the
\* keys of a dict, so no two sort keys are equal).
Ordered(titles) ==
    [r \in 1..Len(titles) |->
        CHOOSE a \in SeqSet(titles) :
            Cardinality({ b \in SeqSet(titles) : KeyLess(b, a) }) + 1 = r]

\* An entry that shows the link only, present or not.
LessonEntryBare(title, url) == M_item \o title \o M_item_tail \o url

\* What lines 979-982 append for one lesson.
LessonEntry(title, url) ==
    M_item \o title \o M_item_tail \o (IF url # EMPTY THEN url ELSE M_no_link)

\* Lines 975-985.
Listing(hits, titles, module_num) ==
    Strip(Join(<< M_header \o Str(module_num) \o M_header_tail >>
               \o [r \in 1..Len(titles) |-> LessonEntry(titles[r], LessonLink(hits, titles[r]))]
               \o << M_hint >>,
               NEWLINE))

\* Lines 952-985, for the hits of the module.
ListLessons(hits, titles, module_num) ==
    IF titles = EMPTY THEN M_no_titles \o Str(module_num) \o M_no_titles_tail
    ELSE Listing(hits, Ordered(titles), module_num)

\* main.py format_module_lessons(module_num)
format_module_lessons(index, module_num) ==
    IF index = EMPTY THEN M_not_loaded
    ELSE With(ModuleHits(index, module_num), LAMBDA hits :
             IF hits = EMPTY THEN M_not_found \o Str(module_num) \o M_not_found_tail
             ELSE ListLessons(hits, LessonTitles(hits, EMPTY), module_num))

(***************************************************************************)
(* State                                                                   *)
(***************************************************************************)

VARIABLES
    kb_file,      \* knowledge/knowledge.txt: [exists, lines]
    KB_INDEX,     \* the global list of micro-items
    KB_EMB_VECS,  \* the global vector table
    pc,           \* where load_kb is: "idle" (not running) or "scan"
    frame,        \* the locals of the running load_kb
    ret,          \* what the last load_kb call returned: [n, status]
    budget,       \* how many more load_kb calls the environment makes
    itemLine,     \* history: for each item of KB_INDEX, the line of its lesson header
    scanned,      \* history: the headers the running scan took as headers, [line, kind]
    loads,        \* history: one record per finished load_kb call
    snapshot,     \* history: KB_INDEX as the last successful load_kb left it
    call,         \* the last query-time call: its function and inputs
    out,          \* what that call returned
    today,          \* the calendar day of the local clock (_today_key), as a day number
    DAILY_COUNTER,  \* the chat's record of the daily limit: NoRecord or [day, count]
    answersToday,   \* history: the generated answers sent to the chat since the day began
    ALBUM_BUFFER,   \* album id -> the number of its buffer dict in dicts
    dicts,          \* the buffer dicts made so far, each [images, caption, task_id]
    tasks,          \* the _process_album tasks created so far, each [album, at, data]
    now,            \* the reading of time.time()
    IMAGE_HISTORY,  \* the chat's image history, each entry [num, image, album_id]
    IMAGE_SEQ,      \* the chat's photo counter
    received,       \* history: the album id of each photo downloaded, 0 for none (photo n carries image n)
    albumAnswers    \* history: the answers _process_album sent, each [album, images]

\* The state the webhook and the album tasks keep about a chat.  The
\* dictionaries of main.py are keyed by chat_id (ALBUM_BUFFER by chat_id and
\* album id) and no handler touches another chat's entries: the variables
\* hold the entries of one chat.  CHAT_CONTEXT, RECENT_ASSISTANT and
\* LAST_IMAGE take no part in what is checked and are left out.
chatVars == << today, DAILY_COUNTER, answersToday, ALBUM_BUFFER, dicts, tasks, now,
               IMAGE_HISTORY, IMAGE_SEQ, received, albumAnswers >>

kbVars == << kb_file, KB_INDEX, KB_EMB_VECS, pc, frame, ret, budget, itemLine,
             scanned, loads, snapshot, call, out >>

vars == << kb_file, KB_INDEX, KB_EMB_VECS, pc, frame, ret, budget, itemLine,
           scanned, loads, snapshot, call, out, today, DAILY_COUNTER,
           answersToday, ALBUM_BUFFER, dicts, tasks, now, IMAGE_HISTORY,
           IMAGE_SEQ, received, albumAnswers >>

\* DAILY_COUNTER.get(chat_id) of a chat that has no record (None).
NoRecord == [day |-> -1, count |-> 0]

\* No message has reached the webhook: the dictionaries are as lines 29-66
\* of main.py make them.
NoMessages ==
    /\ today = 0
    /\ DAILY_COUNTER = NoRecord
    /\ answersToday = 0
    /\ ALBUM_BUFFER = << >>
    /\ dicts = << >>
    /\ tasks = << >>
    /\ now = 0
    /\ IMAGE_HISTORY = << >>
    /\ IMAGE_SEQ = 0
    /\ received = << >>
    /\ albumAnswers = << >>

NoFile == [exists |-> FALSE, lines |-> EMPTY]

(***************************************************************************)
(* load_kb as a process: one action per early return and per iteration.    *)
(***************************************************************************)

\* An early return that leaves the global as it was.
EarlyReturnStale(status) ==
    /\ ret' = [n |-> 0, status |-> status]
    /\ budget' = budget - 1
    /\ loads' = Append(loads, [file |-> kb_file, index |-> KB_INDEX, built |-> FALSE])
    /\ UNCHANGED << chatVars, kb_file, KB_INDEX, KB_EMB_VECS, pc, frame, itemLine, scanned,
                    snapshot, call, out >>

\* An early return of load_kb with the given status (lines 490-497): the
\* global is emptied first.
EarlyReturn(status) ==
    /\ KB_INDEX' = ResetIndex(KB_INDEX)
    /\ itemLine' = [n \in 1..Len(KB_INDEX') |-> 0]
    /\ ret' = [n |-> 0, status |-> status]
    /\ budget' = budget - 1
    /\ loads' = Append(loads, [file |-> kb_file, index |-> KB_INDEX', built |-> FALSE])
    /\ UNCHANGED << chatVars, kb_file, KB_EMB_VECS, pc, frame, scanned, snapshot, call, out >>

\* line 490-492: the corpus file does not exist.
LoadKbMissing ==
    /\ pc = "idle" /\ budget > 0
    /\ ~kb_file.exists
    /\ EarlyReturn("KB not found")

\* line 494-497: the corpus file has no line.
LoadKbEmpty ==
    /\ pc = "idle" /\ budget > 0
    /\ kb_file.exists /\ Len(kb_file.lines) = 0
    /\ EarlyReturn("KB empty")

\* line 499-504: the locals and the global are reset and the scan starts.
LoadKbBegin ==
    /\ pc = "idle" /\ budget > 0
    /\ kb_file.exists /\ Len(kb_file.lines) > 0
    /\ frame' = StartFrame(kb_file)
    /\ KB_INDEX' = ResetIndex(KB_INDEX)
    /\ itemLine' = [n \in 1..Len(KB_INDEX') |-> 0]
    /\ scanned' = EMPTY
    /\ pc' = "scan"
    /\ budget' = budget - 1
    /\ UNCHANGED << chatVars, kb_file, KB_EMB_VECS, ret, loads, snapshot, call, out >>

\* The scan is at a line of the given kind.
AtLine(kind) ==
    /\ pc = "scan"
    /\ frame.i <= Len(frame.lines)
    /\ LineKind(frame.lines, frame.i) = kind

\* The rest of an iteration on a line that is no header: only i moves.
SkipStep ==
    /\ frame' = SkipLine(frame)
    /\ UNCHANGED << chatVars, kb_file, KB_INDEX, KB_EMB_VECS, pc, ret, budget, itemLine,
                    scanned, loads, snapshot, call, out >>

LoopBlank ==
    /\ AtLine("blank")
    /\ SkipStep

LoopOther ==
    /\ AtLine("other")
    /\ SkipStep

\* The rest of an iteration on a Course, Step or Module header: only the
\* locals change.
HeaderStep(kind, after) ==
    /\ frame' = after
    /\ scanned' = Append(scanned, [line |-> frame.i, kind |-> kind])
    /\ UNCHANGED << chatVars, kb_file, KB_INDEX, KB_EMB_VECS, pc, ret, budget, itemLine,
                    loads, snapshot, call, out >>

LoopCourse ==
    /\ AtLine("course")
    /\ HeaderStep("course", CourseBranch(frame))

LoopStep ==
    /\ AtLine("step")
    /\ HeaderStep("step", StepBranch(frame))

LoopModule ==
    /\ AtLine("module")
    /\ HeaderStep("module", ModuleBranch(frame))

\* An iteration on a Lesson header: its items are appended to the global.
LoopLesson ==
    /\ AtLine("lesson")
    /\ frame' = LessonBranch(frame)
    /\ KB_INDEX' = KB_INDEX \o LessonMicroItems(frame, frame.i)
    /\ itemLine' = itemLine \o [n \in 1..(Len(KB_INDEX') - Len(KB_INDEX)) |-> frame.i]
    /\ scanned' = Append(scanned, [line |-> frame.i, kind |-> "lesson"])
    /\ UNCHANGED << chatVars, kb_file, KB_EMB_VECS, pc, ret, budget, loads, snapshot, call, out >>

\* line 627: the scan is over, load_kb returns.
LoadKbReturn ==
    /\ pc = "scan"
    /\ frame.i > Len(frame.lines)
    /\ pc' = "idle"
    /\ ret' = [n |-> Len(KB_INDEX), status |-> "OK"]
    /\ loads' = Append(loads, [file |-> kb_file, index |-> KB_INDEX, built |-> TRUE])
    /\ snapshot' = KB_INDEX
    /\ UNCHANGED << chatVars, kb_file, KB_INDEX, KB_EMB_VECS, frame, budget, itemLine,
                    scanned, call, out >>

\* The environment replaces the corpus file between two load_kb calls.
ReplaceCorpus(file) ==
    /\ pc = "idle" /\ budget > 0
    /\ kb_file.exists /\ Len(kb_file.lines) > 0
    /\ kb_file' = file
    /\ UNCHANGED << chatVars, KB_INDEX, KB_EMB_VECS, pc, frame, ret, budget, itemLine,
                    scanned, loads, snapshot, call, out >>

\* The corpus file is deleted.
RemoveCorpus == ReplaceCorpus(NoFile)

\* The corpus file is emptied.
TruncateCorpus == ReplaceCorpus([exists |-> TRUE, lines |-> EMPTY])

(***************************************************************************)
(* Documents                                                               *)
(***************************************************************************)

\* The documents of lo..hi lines whose lines are taken from pool.
DocsOver(pool, lo, hi) ==
    UNION { { [exists |-> TRUE, lines |-> [n \in 1..len |-> pool[f[n]]]] :
                f \in [1..len -> 1..Len(pool)] } : len \in lo..hi }

\* Lines of the parse specification: a blank line, the four headers (the
\* Module header carrying a link on its own line), a bare link line and a
\* section line.
ParsePool ==
    << << >>,
       \* "СТРУКТУРА КУРСА"
       << 1057, 1058, 1056, 1059, 1050, 1058, 1059, 1056, 1040, 32, 1050,
          1059, 1056, 1057, 1040 >>,
       \* "1 ступень"
       << 49, 32, 1089, 1090, 1091, 1087, 1077, 1085, 1100 >>,
       \* "2 модуль https://m.ru"
       << 50, 32, 1084, 1086, 1076, 1091, 1083, 1100, 32, 104, 116, 116,
          112, 115, 58, 47, 47, 109, 46, 114, 117 >>,
       \* "1 урок"
       << 49, 32, 1091, 1088, 1086, 1082 >>,
       \* "https://u.ru"
       << 104, 116, 116, 112, 115, 58, 47, 47, 117, 46, 114, 117 >>,
       \* "Раздел A: x, y"
       << 1056, 1072, 1079, 1076, 1077, 1083, 32, 65, 58, 32, 120, 44, 32, 121 >> >>

MaxLines == 4

IdleFrame == StartFrame([exists |-> TRUE, lines |-> EMPTY])

\* No call yet, and the value out holds before any.
NoCall == [fn |-> "none"]

\* The history and the locals of a process in which load_kb is not running
\* and no query or message was handled.
Quiet ==
    /\ pc = "idle"
    /\ frame = IdleFrame
    /\ scanned = EMPTY
    /\ loads = EMPTY
    /\ call = NoCall
    /\ out = Returned(EMPTY)
    /\ NoMessages

\* The process before its first load_kb call, nothing loaded yet.
Fresh ==
    /\ KB_INDEX = EMPTY
    /\ KB_EMB_VECS = EMPTY
    /\ ret = [n |-> 0, status |-> "none"]
    /\ itemLine = EMPTY
    /\ snapshot = EMPTY
    /\ Quiet

\* Startup with some corpus on disk, before _startup() calls load_kb().
InitParse ==
    /\ kb_file \in DocsOver(ParsePool, 1, MaxLines)
    /\ budget = 1
    /\ Fresh

NextParse ==
    \/ LoadKbBegin
    \/ LoopBlank
    \/ LoopCourse
    \/ LoopStep
    \/ LoopModule
    \/ LoopLesson
    \/ LoopOther
    \/ LoadKbReturn

\* One load_kb call on every document of the parse pool.
SpecParse == InitParse /\ [][NextParse]_vars

(***************************************************************************)
(* Reloads: load_kb called again, the corpus file deleted or emptied in    *)
(* between.                                                                *)
(***************************************************************************)

ReloadLines == 2

MaxLoads == 2

InitReload ==
    /\ kb_file \in DocsOver(ParsePool, 1, ReloadLines)
    /\ budget = MaxLoads
    /\ Fresh

NextReload ==
    \/ LoadKbMissing
    \/ LoadKbEmpty
    \/ LoadKbBegin
    \/ LoopBlank
    \/ LoopCourse
    \/ LoopStep
    \/ LoopModule
    \/ LoopLesson
    \/ LoopOther
    \/ LoadKbReturn
    \/ RemoveCorpus
    \/ TruncateCorpus

SpecReload == InitReload /\ [][NextReload]_vars

(***************************************************************************)
(* Queries on a loaded index: load_embeddings at startup, then calls of    *)
(* the three candidate functions.                                          *)
(***************************************************************************)

\* load_embeddings() at startup, for the vectors it read from the side-car
\* file (none when the file is missing or unreadable): lines 647 and 678-686.
LoadEmbeddings(read) ==
    /\ pc = "idle"
    /\ KB_EMB_VECS' = AlignVectors(KB_INDEX, read)
    /\ call' = [fn |-> "load_embeddings"]
    /\ UNCHANGED << chatVars, kb_file, KB_INDEX, pc, frame, ret, budget, itemLine, scanned,
                    loads, snapshot, out >>

\* The process is up and has answered no query yet.  The query functions
\* read the globals and write none of them, so the first query after
\* startup stands for every later one.
Serving == pc = "idle" /\ call.fn \in {"none", "load_embeddings"}

\* A query-time call that takes the first item off the shared index.
AnswerConsuming(fn, args, result) ==
    /\ call' = [fn |-> fn, args |-> args]
    /\ out' = result
    /\ KB_INDEX' = IF KB_INDEX = EMPTY THEN EMPTY ELSE Tail(KB_INDEX)
    /\ UNCHANGED << chatVars, kb_file, KB_EMB_VECS, pc, frame, ret, budget,
                    itemLine, scanned, loads, snapshot >>

\* A query-time call: the globals are only read.
Answer(fn, args, result) ==
    /\ call' = [fn |-> fn, args |-> args]
    /\ out' = result
    /\ UNCHANGED << chatVars, kb_file, KB_INDEX, KB_EMB_VECS, pc, frame, ret, budget,
                    itemLine, scanned, loads, snapshot >>

CallKeyword(query, k) ==
    Answer("kb_candidates_keyword", [query |-> query, k |-> k],
           Returned(kb_candidates_keyword(KB_INDEX, query, k)))

CallSemantic(query, k, reply) ==
    Answer("kb_candidates_semantic", [query |-> query, k |-> k, reply |-> reply],
           kb_candidates_semantic(KB_INDEX, KB_EMB_VECS, query, k, reply))

CallCandidates(query, k, reply) ==
    Answer("kb_candidates", [query |-> query, k |-> k, reply |-> reply],
           kb_candidates(KB_INDEX, KB_EMB_VECS, query, k, reply))

\* The lesson blocks of the query corpora: a bare lesson; a lesson with a
\* link and a section of two materials; that lesson with a homework.
LessonBlocks ==
    << \* "1 урок"
       << << 49, 32, 1091, 1088, 1086, 1082 >> >>,
       \* "2 урок" / "Ссылка: https://u.ru" / "Раздел A: ванна, x"
       << << 50, 32, 1091, 1088, 1086, 1082 >>,
          << 1057, 1089, 1099, 1083, 1082, 1072, 58, 32, 104, 116, 116, 112,
             115, 58, 47, 47, 117, 46, 114, 117 >>,
          << 1056, 1072, 1079, 1076, 1077, 1083, 32, 65, 58, 32, 1074, 1072,
             1085, 1085, 1072, 44, 32, 120 >> >>,
       \* "2 урок" / "Ссылка: https://u.ru" / "Раздел A: ванна, x" / "ДЗ: ванна"
       << << 50, 32, 1091, 1088, 1086, 1082 >>,
          << 1057, 1089, 1099, 1083, 1082, 1072, 58, 32, 104, 116, 116, 112,
             115, 58, 47, 47, 117, 46, 114, 117 >>,
          << 1056, 1072, 1079, 1076, 1077, 1083, 32, 65, 58, 32, 1074, 1072,
             1085, 1085, 1072, 44, 32, 120 >>,
          << 1044, 1047, 58, 32, 1074, 1072, 1085, 1085, 1072 >> >> >>

MaxLessons == 2

\* The corpora of at most MaxLessons lesson blocks.
QueryDocs ==
    UNION { { [exists |-> TRUE, lines |-> Concat([n \in 1..len |-> LessonBlocks[f[n]]])] :
                f \in [1..len -> 1..Len(LessonBlocks)] } : len \in 0..MaxLessons }

\* "ванна туалет": each of the two words is also a synonym of the other.
Q_vanna_tualet ==
    << 1074, 1072, 1085, 1085, 1072, 32, 1090, 1091, 1072, 1083, 1077, 1090 >>

\* The queries: the empty one, "урок", "ванна", "ванна туалет".
Queries ==
    { EMPTY,
      << 1091, 1088, 1086, 1082 >>,
      << 1074, 1072, 1085, 1085, 1072 >>,
      Q_vanna_tualet }

MaxK == 2

\* Vectors of the side-car table, and the tables of at most MaxVecs of them.
VecPool == << << 1, 0 >>, << -1, 0 >> >>

MaxVecs == 2

VecTables ==
    UNION { [1..len -> { VecPool[v] : v \in 1..Len(VecPool) }] : len \in 0..MaxVecs }

\* What the embeddings endpoint may answer: a failure, a vector of the
\* table's dimension, a vector of another dimension.
EmbedReplies ==
    { [ok |-> FALSE, embedding |-> EMPTY],
      [ok |-> TRUE, embedding |-> << 1, 0 >>],
      [ok |-> TRUE, embedding |-> << 1 >>] }

\* The process after load_kb() read one of the corpora.
InitQuery ==
    /\ kb_file \in QueryDocs
    /\ KB_INDEX = ParseDoc(kb_file)
    /\ KB_EMB_VECS = EMPTY
    /\ ret = [n |-> Len(KB_INDEX),
              status |-> IF kb_file.lines = EMPTY THEN "KB empty" ELSE "OK"]
    /\ budget = 0
    /\ itemLine = [n \in 1..Len(KB_INDEX) |-> 0]
    /\ snapshot = KB_INDEX
    /\ Quiet

\* _startup() reads the side-car file, whatever it holds.
Startup ==
    /\ call = NoCall
    /\ \E read \in VecTables : LoadEmbeddings(read)

KeywordQuery ==
    /\ Serving
    /\ \E query \in Queries, k \in 0..MaxK : CallKeyword(query, k)

SemanticQuery ==
    /\ Serving
    /\ \E query \in Queries, k \in 0..MaxK, reply \in EmbedReplies :
           CallSemantic(query, k, reply)

HybridQuery ==
    /\ Serving
    /\ \E query \in Queries, k \in 0..MaxK, reply \in EmbedReplies :
           CallCandidates(query, k, reply)

NextQuery ==
    \/ Startup
    \/ KeywordQuery
    \/ SemanticQuery
    \/ HybridQuery

SpecQuery == InitQuery /\ [][NextQuery]_vars

\* The lexical search alone, on the same corpora and queries.
NextKeyword == KeywordQuery

SpecKeyword == InitQuery /\ [][NextKeyword]_vars

(***************************************************************************)
(* The selector on candidate lists of every length up to one more than     *)
(* the judge's window.                                                     *)
(***************************************************************************)

CallSelect(candidates, reply) ==
    Answer("kb_select_with_llm", [candidates |-> candidates, reply |-> reply],
           kb_select_with_llm(candidates, reply))

MaxCandidates == 21

\* A list of n candidates, told apart by their lesson titles.
CandidateList(n) == [i \in 1..n |-> [lesson_title |-> << i >>]]

MaxPicks == 4

\* The entries of a pick list: indexes below, in and above the range, a
\* string and a boolean.
PickEntries ==
    { JInt(0), JInt(1), JInt(2), JInt(MaxCandidates), JStr(1), JBool(TRUE) }

PickLists == UNION { [1..len -> PickEntries] : len \in 0..MaxPicks }

\* What the judge may say: no JSON; JSON that is no object; an object
\* without "pick"; "pick" that is no list; a list of picks.
JudgeTexts ==
    { NotJson, JsonText(JNull), JsonText(JInt(1)), JsonText(JArr(<< JInt(1) >>)),
      JsonText(JObjNoPick(0)), JsonText(JObjNoPick(1)),
      JsonText(JObj(JNull)), JsonText(JObj(JInt(1))), JsonText(JObj(JStr(2))) }
    \cup { JsonText(JObj(JArr(picks))) : picks \in PickLists }

\* What the chat endpoint may answer: a failure, or a text.
JudgeReplies ==
    { [ok |-> FALSE, content |-> NotJson] }
    \cup { [ok |-> TRUE, content |-> text] : text \in JudgeTexts }

InitSelect ==
    /\ kb_file = NoFile
    /\ budget = 0
    /\ Fresh

SelectQuery ==
    /\ Serving
    /\ \E n \in 0..MaxCandidates, reply \in JudgeReplies :
           CallSelect(CandidateList(n), reply)

NextSelect == SelectQuery

SpecSelect == InitSelect /\ [][NextSelect]_vars

(***************************************************************************)
(* The presentation of selections taken from a parsed corpus.              *)
(***************************************************************************)

\* A step and a module with three lessons: one with a link and two
\* sections, one bare, one with a link and a homework.
SelectionDoc ==
    [exists |-> TRUE,
     lines |->
       <<
          \* "1 ступень"
          << 49, 32, 1089, 1090, 1091, 1087, 1077, 1085, 1100 >>,
          \* "2 модуль"
          << 50, 32, 1084, 1086, 1076, 1091, 1083, 1100 >>,
          \* "3 урок"
          << 51, 32, 1091, 1088, 1086, 1082 >>,
          \* "Ссылка: https://a.ru"
          << 1057, 1089, 1099, 1083, 1082, 1072, 58, 32, 104, 116, 116, 112,
             115, 58, 47, 47, 97, 46, 114, 117 >>,
          \* "Раздел A: m"
          << 1056, 1072, 1079, 1076, 1077, 1083, 32, 65, 58, 32, 109 >>,
          \* "Раздел B: n"
          << 1056, 1072, 1079, 1076, 1077, 1083, 32, 66, 58, 32, 110 >>,
          \* "1 урок"
          << 49, 32, 1091, 1088, 1086, 1082 >>,
          \* "4 урок"
          << 52, 32, 1091, 1088, 1086, 1082 >>,
          \* "Ссылка: https://c.ru"
          << 1057, 1089, 1099, 1083, 1082, 1072, 58, 32, 104, 116, 116, 112,
             115, 58, 47, 47, 99, 46, 114, 117 >>,
          \* "ДЗ: макет"
          << 1044, 1047, 58, 32, 1084, 1072, 1082, 1077, 1090 >>
       >>]

\* The character x, n times.
Rep(c, n) == [i \in 1..n |-> c]

\* "ДЗ: "
L_dz_colon == << 1044, 1047, 58, 32 >>

\* Lessons whose homework has 240 characters, 241 characters, and 241
\* characters of which the 240th is a space; a lesson whose only material
\* is a lone full stop, which split_materials strips to nothing.
HomeworkDoc ==
    [exists |-> TRUE,
     lines |->
       <<
          \* "1 урок"
          << 49, 32, 1091, 1088, 1086, 1082 >>,
          \* "ДЗ: " and 240 times x
          L_dz_colon \o Rep(120, HomeworkLimit),
          \* "2 урок"
          << 50, 32, 1091, 1088, 1086, 1082 >>,
          \* "ДЗ: " and 241 times x
          L_dz_colon \o Rep(120, HomeworkLimit + 1),
          \* "3 урок"
          << 51, 32, 1091, 1088, 1086, 1082 >>,
          \* "ДЗ: ", 239 times x, a space, y
          L_dz_colon \o Rep(120, HomeworkLimit - 1) \o << 32, 121 >>,
          \* "4 урок"
          << 52, 32, 1091, 1088, 1086, 1082 >>,
          \* "Раздел A: ."
          << 1056, 1072, 1079, 1076, 1077, 1083, 32, 65, 58, 32, 46 >>
       >>]

\* "урок"
Q_urok ==
    << 1091, 1088, 1086, 1082 >>

\* "3Д"
Q_3d_upper ==
    << 51, 1044 >>

\* "где урок про 3d коллаж ванной"
Q_where_collage ==
    << 1075, 1076, 1077, 32, 1091, 1088, 1086, 1082, 32, 1087, 1088, 1086,
       32, 51, 100, 32, 1082, 1086, 1083, 1083, 1072, 1078, 32, 1074, 1072,
       1085, 1085, 1086, 1081 >>

\* The corpora of the presentation checks.
FormatDocs == { SelectionDoc, HomeworkDoc }

\* The queries of the presentation checks: one that asks for no collage,
\* one in upper case that does, and a question that does.
FormatQueries == { Q_urok, Q_3d_upper, Q_where_collage }

\* The queries put to format_kb_hits: one plain, one about a collage.
BlockQueries == { Q_urok, Q_where_collage }

\* The longest list of hits handed to format_kb_hits: one more than its cap of
\* blocks, so that the slice hits[:3] has something to cut.
MaxHits == 4

\* The lists of hits: items of the index, in any order, repeated or not.
Selections ==
    UNION { [1..len -> SeqSet(KB_INDEX)] : len \in 0..MaxHits }

CallMaterialName(it, query) ==
    Answer("best_material_name", [it |-> it, query |-> query],
           Returned(best_material_name(it, query)))

CallFormat(hits, query) ==
    Answer("format_kb_hits", [hits |-> hits, query |-> query],
           Returned(format_kb_hits(hits, query)))

\* The process after load_kb() read one of the corpora docs.
LoadedFrom(docs) ==
    /\ kb_file \in docs
    /\ KB_INDEX = ParseDoc(kb_file)
    /\ KB_EMB_VECS = EMPTY
    /\ ret = [n |-> Len(KB_INDEX), status |-> "OK"]
    /\ budget = 0
    /\ itemLine = [n \in 1..Len(KB_INDEX) |-> 0]
    /\ snapshot = KB_INDEX
    /\ Quiet

InitFormat == LoadedFrom(FormatDocs)

MaterialNameQuery ==
    /\ Serving
    /\ \E n \in 1..Len(KB_INDEX), query \in FormatQueries :
           CallMaterialName(KB_INDEX[n], query)

FormatQuery ==
    /\ Serving
    /\ \E hits \in Selections, query \in BlockQueries : CallFormat(hits, query)

NextFormat ==
    \/ MaterialNameQuery
    \/ FormatQuery

SpecFormat == InitFormat /\ [][NextFormat]_vars

(***************************************************************************)
(* Questions put to the handler with a corpus that holds the collage       *)
(* lesson.                                                                 *)
(***************************************************************************)

\* Another lesson, then the collage lesson with a link.
CollageDocLinked ==
    [exists |-> TRUE,
     lines |->
       <<
          \* "1 урок"
          << 49, 32, 1091, 1088, 1086, 1082 >>,
          \* "Раздел A: плитка"
          << 1056, 1072, 1079, 1076, 1077, 1083, 32, 65, 58, 32, 1087, 1083,
             1080, 1090, 1082, 1072 >>,
          \* "2 урок"
          << 50, 32, 1091, 1088, 1086, 1082 >>,
          \* "Ссылка: https://k.ru"
          << 1057, 1089, 1099, 1083, 1082, 1072, 58, 32, 104, 116, 116, 112,
             115, 58, 47, 47, 107, 46, 114, 117 >>,
          \* "Раздел «3D коллаж»: референсы, мудборд"
          << 1056, 1072, 1079, 1076, 1077, 1083, 32, 171, 51, 68, 32, 1082,
             1086, 1083, 1083, 1072, 1078, 187, 58, 32, 1088, 1077, 1092,
             1077, 1088, 1077, 1085, 1089, 1099, 44, 32, 1084, 1091, 1076,
             1073, 1086, 1088, 1076 >>,
          \* "ДЗ: собрать 3D коллаж ванной комнаты в стиле лофт"
          << 1044, 1047, 58, 32, 1089, 1086, 1073, 1088, 1072, 1090, 1100,
             32, 51, 68, 32, 1082, 1086, 1083, 1083, 1072, 1078, 32, 1074,
             1072, 1085, 1085, 1086, 1081, 32, 1082, 1086, 1084, 1085, 1072,
             1090, 1099, 32, 1074, 32, 1089, 1090, 1080, 1083, 1077, 32,
             1083, 1086, 1092, 1090 >>
       >>]

\* Another lesson, then the collage lesson without a link.
CollageDocBare ==
    [exists |-> TRUE,
     lines |->
       <<
          \* "1 урок"
          << 49, 32, 1091, 1088, 1086, 1082 >>,
          \* "Раздел A: плитка"
          << 1056, 1072, 1079, 1076, 1077, 1083, 32, 65, 58, 32, 1087, 1083,
             1080, 1090, 1082, 1072 >>,
          \* "2 урок"
          << 50, 32, 1091, 1088, 1086, 1082 >>,
          \* "Раздел «3D коллаж»: референсы, мудборд"
          << 1056, 1072, 1079, 1076, 1077, 1083, 32, 171, 51, 68, 32, 1082,
             1086, 1083, 1083, 1072, 1078, 187, 58, 32, 1088, 1077, 1092,
             1077, 1088, 1077, 1085, 1089, 1099, 44, 32, 1084, 1091, 1076,
             1073, 1086, 1088, 1076 >>,
          \* "ДЗ: собрать 3D коллаж ванной комнаты в стиле лофт"
          << 1044, 1047, 58, 32, 1089, 1086, 1073, 1088, 1072, 1090, 1100,
             32, 51, 68, 32, 1082, 1086, 1083, 1083, 1072, 1078, 32, 1074,
             1072, 1085, 1085, 1086, 1081, 32, 1082, 1086, 1084, 1085, 1072,
             1090, 1099, 32, 1074, 32, 1089, 1090, 1080, 1083, 1077, 32,
             1083, 1086, 1092, 1090 >>
       >>]

\* The collage lesson with a link, then another lesson.
CollageDocFirst ==
    [exists |-> TRUE,
     lines |->
       <<
          \* "2 урок"
          << 50, 32, 1091, 1088, 1086, 1082 >>,
          \* "Ссылка: https://k.ru"
          << 1057, 1089, 1099, 1083, 1082, 1072, 58, 32, 104, 116, 116, 112,
             115, 58, 47, 47, 107, 46, 114, 117 >>,
          \* "Раздел «3D коллаж»: референсы, мудборд"
          << 1056, 1072, 1079, 1076, 1077, 1083, 32, 171, 51, 68, 32, 1082,
             1086, 1083, 1083, 1072, 1078, 187, 58, 32, 1088, 1077, 1092,
             1077, 1088, 1077, 1085, 1089, 1099, 44, 32, 1084, 1091, 1076,
             1073, 1086, 1088, 1076 >>,
          \* "ДЗ: собрать 3D коллаж ванной комнаты в стиле лофт"
          << 1044, 1047, 58, 32, 1089, 1086, 1073, 1088, 1072, 1090, 1100,
             32, 51, 68, 32, 1082, 1086, 1083, 1083, 1072, 1078, 32, 1074,
             1072, 1085, 1085, 1086, 1081, 32, 1082, 1086, 1084, 1085, 1072,
             1090, 1099, 32, 1074, 32, 1089, 1090, 1080, 1083, 1077, 32,
             1083, 1086, 1092, 1090 >>,
          \* "1 урок"
          << 49, 32, 1091, 1088, 1086, 1082 >>,
          \* "Раздел A: плитка"
          << 1056, 1072, 1079, 1076, 1077, 1083, 32, 65, 58, 32, 1087, 1083,
             1080, 1090, 1082, 1072 >>
       >>]

\* Two lessons of one title and no link, the second the collage lesson.
CollageDocSameTitle ==
    [exists |-> TRUE,
     lines |->
       <<
          \* "2 урок"
          << 50, 32, 1091, 1088, 1086, 1082 >>,
          \* "Раздел A: плитка"
          << 1056, 1072, 1079, 1076, 1077, 1083, 32, 65, 58, 32, 1087, 1083,
             1080, 1090, 1082, 1072 >>,
          \* "2 урок"
          << 50, 32, 1091, 1088, 1086, 1082 >>,
          \* "Раздел «3D коллаж»: референсы, мудборд"
          << 1056, 1072, 1079, 1076, 1077, 1083, 32, 171, 51, 68, 32, 1082,
             1086, 1083, 1083, 1072, 1078, 187, 58, 32, 1088, 1077, 1092,
             1077, 1088, 1077, 1085, 1089, 1099, 44, 32, 1084, 1091, 1076,
             1073, 1086, 1088, 1076 >>,
          \* "ДЗ: собрать 3D коллаж ванной комнаты в стиле лофт"
          << 1044, 1047, 58, 32, 1089, 1086, 1073, 1088, 1072, 1090, 1100,
             32, 51, 68, 32, 1082, 1086, 1083, 1083, 1072, 1078, 32, 1074,
             1072, 1085, 1085, 1086, 1081, 32, 1082, 1086, 1084, 1085, 1072,
             1090, 1099, 32, 1074, 32, 1089, 1090, 1080, 1083, 1077, 32,
             1083, 1086, 1092, 1090 >>
       >>]

CollageDocs == { CollageDocLinked, CollageDocBare, CollageDocFirst, CollageDocSameTitle }

\* "Где  посмотреть 3d": no "урок", but a phrase of COURSE_LOCATOR_RE.
Q_gde_posmotret ==
    << 1043, 1076, 1077, 32, 32, 1087, 1086, 1089, 1084, 1086, 1090, 1088,
       1077, 1090, 1100, 32, 51, 100 >>

\* The questions: one that asks where the collage lesson is, one that asks
\* for no lesson, one that only COURSE_LOCATOR_RE lets through.
Questions == { Q_where_collage, Q_3d_upper, Q_gde_posmotret }

\* The pick lists of the judge: none, one candidate, several.
LessonPicks ==
    { << >>, << JInt(1) >>, << JInt(2) >>, << JInt(3) >>,
      << JInt(2), JInt(1) >>, << JInt(3), JInt(2), JInt(1) >> }

\* What the chat endpoint may answer: a failure, or a list of picks.
LessonJudgeReplies ==
    { [ok |-> FALSE, content |-> NotJson] }
    \cup { [ok |-> TRUE, content |-> JsonText(JObj(JArr(picks)))] : picks \in LessonPicks }

CallKbBlock(text, embed, chat) ==
    Answer("webhook", [text |-> text, embed |-> embed, chat |-> chat],
           KbBlock(KB_INDEX, KB_EMB_VECS, text, embed, chat))

InitEndToEnd == LoadedFrom(CollageDocs)

\* A message that reaches line 1277 of webhook.
LessonQuestion ==
    /\ Serving
    /\ \E text \in Questions, embed \in EmbedReplies, chat \in LessonJudgeReplies :
           CallKbBlock(text, embed, chat)

NextEndToEnd ==
    \/ Startup
    \/ LessonQuestion

SpecEndToEnd == InitEndToEnd /\ [][NextEndToEnd]_vars

(***************************************************************************)
(* Requests for the list of the lessons of a module.                       *)
(***************************************************************************)

\* The pieces of the module corpora: two module headers and five lessons.
ModuleBlocks ==
    << \* "1 модуль"
       << << 49, 32, 1084, 1086, 1076, 1091, 1083, 1100 >> >>,
       \* "12 Модуль: цвет"
       << << 49, 50, 32, 1052, 1086, 1076, 1091, 1083, 1100, 58, 32, 1094,
             1074, 1077, 1090 >> >>,
       \* "3 урок"
       << << 51, 32, 1091, 1088, 1086, 1082 >> >>,
       \* "1 урок"
       << << 49, 32, 1091, 1088, 1086, 1082 >> >>,
       \* "1 урок" / "Ссылка: https://a.ru"
       << << 49, 32, 1091, 1088, 1086, 1082 >>,
          << 1057, 1089, 1099, 1083, 1082, 1072, 58, 32, 104, 116, 116, 112,
             115, 58, 47, 47, 97, 46, 114, 117 >> >>,
       \* "10 урок"
       << << 49, 48, 32, 1091, 1088, 1086, 1082 >> >>,
       \* "2 урок" / "Ссылка: https://b.ru"
       << << 50, 32, 1091, 1088, 1086, 1082 >>,
          << 1057, 1089, 1099, 1083, 1082, 1072, 58, 32, 104, 116, 116, 112,
             115, 58, 47, 47, 98, 46, 114, 117 >> >> >>

MaxModuleBlocks == 3

\* The corpora: up to MaxModuleBlocks pieces in any order.
ModuleDocs ==
    UNION { { [exists |-> TRUE, lines |-> Concat([n \in 1..len |-> ModuleBlocks[f[n]]])] :
                f \in [1..len -> 1..Len(ModuleBlocks)] } : len \in 1..MaxModuleBlocks }

\* The greatest module number asked for.
MaxModule == 2

CallModuleLessons(module_num) ==
    Answer("format_module_lessons", [module_num |-> module_num],
           Returned(format_module_lessons(KB_INDEX, module_num)))

InitModule == LoadedFrom(ModuleDocs)

\* A message that reaches line 1206 of webhook.
ModuleQuery ==
    /\ Serving
    /\ \E module_num \in 0..MaxModule : CallModuleLessons(module_num)

NextModule == ModuleQuery

SpecModule == InitModule /\ [][NextModule]_vars

(***************************************************************************)
(* Properties                                                              *)
(***************************************************************************)

\* The candidates a call returned.
Results == out.value

\* C1: when the vector table is empty, kb_candidates(query, k) returns
\* exactly the list kb_candidates_keyword(query, k) returns, for every
\* query, every k and every index.
C1_EmptyTableGivesKeyword ==
    (call.fn = "kb_candidates" /\ KB_EMB_VECS = EMPTY)
        => out = Returned(kb_candidates_keyword(KB_INDEX, call.args.query,
                                                call.args.k))

\* C1 happens: a hybrid query without vectors that found several items.
C1_Witness ==
    /\ call.fn = "kb_candidates"
    /\ KB_EMB_VECS = EMPTY
    /\ Len(Results) >= 2

\* C2: when the embedding request fails while an index and a vector table
\* are loaded, kb_candidates does not raise and returns exactly what
\* kb_candidates_keyword returns for the same query and k.
C2_EmbedFailureGivesKeyword ==
    (/\ call.fn = "kb_candidates"
     /\ KB_INDEX # EMPTY
     /\ KB_EMB_VECS # EMPTY
     /\ ~call.args.reply.ok)
        => out = Returned(kb_candidates_keyword(KB_INDEX, call.args.query,
                                                call.args.k))

\* C2 happens: the request was made (the query is not empty), it failed,
\* and the lexical search found something.
C2_Witness ==
    /\ call.fn = "kb_candidates"
    /\ KB_EMB_VECS # EMPTY
    /\ call.args.query # EMPTY
    /\ ~call.args.reply.ok
    /\ ~out.raised
    /\ Len(Results) >= 1

\* The judge call failed, or json.loads cannot read the judge's text.
Unparseable(reply) == ~reply.ok \/ ~reply.content.json

\* C3: for a non-empty candidate list, when the judge's response is
\* unparseable or the judge call fails, kb_select_with_llm returns exactly
\* one element, the first candidate.
C3_UnparseableGivesTopOne ==
    (/\ call.fn = "kb_select_with_llm"
     /\ call.args.candidates # EMPTY
     /\ Unparseable(call.args.reply))
        => out = Returned(<< call.args.candidates[1] >>)

\* C3 happens: the judge call failed on a list of several candidates.
C3_Witness ==
    /\ call.fn = "kb_select_with_llm"
    /\ Len(call.args.candidates) >= 2
    /\ ~call.args.reply.ok
    /\ Results = << call.args.candidates[1] >>

\* The judge's text is an object whose "pick" is a list.
HasPickList(reply) ==
    /\ reply.ok
    /\ reply.content.json
    /\ reply.content.value.t = "object"
    /\ reply.content.value.items # EMPTY
    /\ reply.content.value.items[1].t = "array"

\* The pick list of such a text.
PickListOf(reply) == reply.content.value.items[1].items

\* p is an integer index into the first 20 of n candidates; json.loads
\* reads true as Python's True, which is the integer 1.
InRange(p, n) == p.t \in {"int", "bool"} /\ 1 <= p.n /\ p.n <= n /\ p.n <= 20

\* chosen are the candidates of in-range picks, taken in the order of picks.
FollowsPicks(chosen, picks, candidates) ==
    \E f \in [1..Len(chosen) -> 1..Len(picks)] :
        /\ \A a, b \in 1..Len(chosen) : a < b => f[a] < f[b]
        /\ \A a \in 1..Len(chosen) :
               /\ InRange(picks[f[a]], Len(candidates))
               /\ chosen[a] = candidates[picks[f[a]].n]

\* C4: for every judge response kb_select_with_llm returns at most 3
\* candidates, each one of the first 20 input candidates; a pick outside
\* 1..min(20, number of candidates) contributes nothing, and the valid picks
\* come in the order the judge gave them.
C4_AtMostThreeInJudgeOrder ==
    call.fn = "kb_select_with_llm" =>
        /\ ~out.raised
        /\ Len(Results) <= 3
        /\ \A e \in 1..Len(Results) :
               \E i \in 1..Len(call.args.candidates) :
                   i <= 20 /\ Results[e] = call.args.candidates[i]
        /\ HasPickList(call.args.reply) =>
               FollowsPicks(Results, PickListOf(call.args.reply),
                            call.args.candidates)

\* C4 happens: of the picks 2, an index above the window, 1, the second
\* and the first candidate come back, in that order.
C4_Witness ==
    /\ call.fn = "kb_select_with_llm"
    /\ HasPickList(call.args.reply)
    /\ PickListOf(call.args.reply) = << JInt(2), JInt(MaxCandidates), JInt(1) >>
    /\ Len(call.args.candidates) = MaxCandidates
    /\ Results = << call.args.candidates[2], call.args.candidates[1] >>

\* The judge's text is an object whose "pick" is the empty list.
EmptyPick(reply) == HasPickList(reply) /\ PickListOf(reply) = EMPTY

\* C5: a well-formed judge response with an empty pick list gives the empty
\* selection, and a failed or undeserializable response on a non-empty
\* candidate list never gives the empty selection.
C5_NothingRelevantIsNotFailure ==
    call.fn = "kb_select_with_llm" =>
        /\ EmptyPick(call.args.reply) => out = Returned(EMPTY)
        /\ (Unparseable(call.args.reply) /\ call.args.candidates # EMPTY)
               => (~out.raised /\ Results # EMPTY)

\* C5 happens: the judge picked nothing among several candidates.
C5_Witness ==
    /\ call.fn = "kb_select_with_llm"
    /\ Len(call.args.candidates) >= 2
    /\ EmptyPick(call.args.reply)
    /\ Results = EMPTY

\* C6: a rebuild is atomic for readers: while load_kb runs, KB_INDEX is the
\* complete previous index or the complete new one, and once load_kb is
\* over it is the index of the last successful build (a reload that found
\* the corpus missing or empty left the previous index in place).
C6_ReloadIsAtomic ==
    /\ pc = "scan" => KB_INDEX \in {snapshot, ParseDoc(kb_file)}
    /\ pc = "idle" => KB_INDEX = snapshot

\* The scan took a header of the given kind at line p.
Scanned(kind, p) ==
    \E s \in 1..Len(scanned) : scanned[s].kind = kind /\ scanned[s].line = p

\* The scan took a Step header at line p, and no Module header between p
\* and line l.
StepThenNoModule(p, l) ==
    /\ p < l
    /\ Scanned("step", p)
    /\ \A m \in (p + 1)..(l - 1) : ~Scanned("module", m)

\* C7: after a Step header is scanned, every lesson parsed before the next
\* Module header has an empty module_title and module_url, whether or not
\* the previous Step had a Module header.
C7_StepResetsModule ==
    \A n \in 1..Len(KB_INDEX) :
        (\E p \in 1..Len(frame.lines) : StepThenNoModule(p, itemLine[n]))
            => (KB_INDEX[n].module_title = EMPTY /\ KB_INDEX[n].module_url = EMPTY)

\* C7 happens: a Module header was scanned, then a Step header, then a
\* lesson.
C7_Witness ==
    \E n \in 1..Len(KB_INDEX) : \E p \in 1..Len(frame.lines) :
        /\ StepThenNoModule(p, itemLine[n])
        /\ \E m \in 1..(p - 1) : Scanned("module", m)

\* The last line above line l that is a header of the given kind (0 when
\* there is none).
HeaderAbove(lines, l, kind) ==
    With({p \in 1..(l - 1) : LineKind(lines, p) = kind}, LAMBDA S :
        IF S = {} THEN 0 ELSE CHOOSE p \in S : \A q \in S : q <= p)

\* The title that header gives: the line, stripped.
TitleAt(lines, p) == IF p = 0 THEN EMPTY ELSE Strip(lines[p])

\* C8: every item carries as course_title, step_title and module_title the
\* most recent Course, Step and Module header lines above its lesson header
\* in the document, the module being empty when a Step header came after
\* the last Module header.
C8_ProvenanceFollowsDocument ==
    \A n \in 1..Len(KB_INDEX) :
        /\ KB_INDEX[n].course_title
               = TitleAt(frame.lines, HeaderAbove(frame.lines, itemLine[n], "course"))
        /\ KB_INDEX[n].step_title
               = TitleAt(frame.lines, HeaderAbove(frame.lines, itemLine[n], "step"))
        /\ KB_INDEX[n].module_title
               = IF HeaderAbove(frame.lines, itemLine[n], "module")
                        > HeaderAbove(frame.lines, itemLine[n], "step")
                 THEN TitleAt(frame.lines,
                              HeaderAbove(frame.lines, itemLine[n], "module"))
                 ELSE EMPTY

\* C9: load_kb run twice on the same corpus gives the same KB_INDEX: same
\* length, same order, same fields.
C9_ParsingIsIdempotent ==
    \A a, b \in 1..Len(loads) :
        loads[a].file = loads[b].file => loads[a].index = loads[b].index

\* C9 happens: two runs on one corpus whose first lesson stands above a
\* Step header, so that the context at the end of a run differs from the
\* context at its start.
C9_Witness ==
    /\ Len(loads) = 2
    /\ loads[1].file = loads[2].file
    /\ loads[1].built
    /\ loads[2].index # EMPTY
    /\ loads[2].index[1].step_title = EMPTY
    /\ frame.step_title # EMPTY

\* The key of the claim: the lesson's link or, without one, its title; the
\* section; the material.
IdentityKey(it) ==
    << IF it.lesson_url # EMPTY THEN it.lesson_url ELSE it.lesson_title,
       it.section_title, it.material_title >>

\* C10: in every list kb_candidates_keyword or kb_candidates_semantic
\* returns, no two candidates have the same key (lesson_url or else
\* lesson_title, section_title, material_title).
C10_NoTwoCandidatesShareKey ==
    call.fn \in {"kb_candidates_keyword", "kb_candidates_semantic"} =>
        \A a, b \in 1..Len(Results) :
            a # b => IdentityKey(Results[a]) # IdentityKey(Results[b])

\* C10 happens: two items of one key both score above the second
\* candidate returned, and only the first of them is returned.
C10_Witness ==
    /\ call.fn = "kb_candidates_keyword"
    /\ Len(Results) = 2
    /\ With(KeywordScores(KB_INDEX, normalize(call.args.query)), LAMBDA s :
           \E a, b, c \in 1..Len(KB_INDEX) :
               /\ a < c
               /\ KB_INDEX[a] = Results[1]
               /\ KB_INDEX[b] = Results[2]
               /\ IdentityKey(KB_INDEX[c]) = IdentityKey(KB_INDEX[a])
               /\ s[c] > s[b])

\* The position of the first item of the index that equals it.
FirstAt(index, it) ==
    CHOOSE n \in 1..Len(index) : index[n] = it /\ \A m \in 1..(n - 1) : index[m] # it

\* The scores of the index for the query of the call.
CallScores == KeywordScores(KB_INDEX, normalize(call.args.query))

\* The index position of the r-th candidate returned.
ResultAt(r) == FirstAt(KB_INDEX, Results[r])

\* C11: kb_candidates_keyword returns its candidates in non-increasing
\* score order, candidates of equal score in their document order, and of
\* the scored items that share a deduplication key the one returned is the
\* highest-ranked: none of them scores higher, none of equal score stands
\* earlier in the index.
C11_RankedStableFirstWins ==
    call.fn = "kb_candidates_keyword" =>
        With(CallScores, LAMBDA s :
        With([r \in 1..Len(Results) |-> ResultAt(r)], LAMBDA at :
            /\ \A a, b \in 1..Len(Results) :
                   a < b =>
                       /\ s[at[a]] >= s[at[b]]
                       /\ s[at[a]] = s[at[b]] => at[a] < at[b]
            /\ \A a \in 1..Len(Results) : \A c \in 1..Len(KB_INDEX) :
                   (s[c] > 0 /\ DedupKey(KB_INDEX[c]) = DedupKey(Results[a]))
                       => /\ s[c] <= s[at[a]]
                          /\ s[c] = s[at[a]] => at[a] <= c))

\* C11 happens: two candidates of equal score come back in document order,
\* and a later item of the index has the key of the first of them.
C11_Witness ==
    /\ call.fn = "kb_candidates_keyword"
    /\ Len(Results) = 2
    /\ CallScores[ResultAt(1)] = CallScores[ResultAt(2)]
    /\ \E c \in 1..Len(KB_INDEX) :
           /\ c > ResultAt(1)
           /\ CallScores[c] > 0
           /\ DedupKey(KB_INDEX[c]) = DedupKey(Results[1])

\* C12: for every result bound k >= 0, kb_candidates_keyword(query, k) and
\* kb_candidates_semantic(query, k) return at most k candidates.
C12_AtMostK ==
    (call.fn \in {"kb_candidates_keyword", "kb_candidates_semantic"} /\ call.args.k >= 0)
        => Len(Results) <= call.args.k

\* The terms of the normalized query q as a set: the runs of length >= 3
\* of the query and of the synonyms its fragments bring in.
ClaimTerms(q) ==
    With(KeywordExpansions(q), LAMBDA es :
        SeqSet(LongRuns(q))
        \cup UNION { SeqSet(LongRuns(normalize(es[e]))) : e \in 1..Len(es) })

\* How many of the terms T the string s contains.
Matched(T, s) == Cardinality({ w \in T : Contains(s, w) })

\* The score the claim gives item it for the terms T, in tenths; bath tells
\* whether the query is bathroom-related.
ClaimScore(it, T, bath) ==
    10 * Matched(T, it.text)
    + 15 * Matched(T, normalize(it.material_title))
    + 12 * Matched(T, normalize(it.lesson_blob))
    + 26 * Matched(T, normalize(it.homework))
    + (IF bath /\ \E n \in 1..Len(BathTerms) : Contains(it.text, BathTerms[n])
       THEN 30 ELSE 0)

\* C13: the lexical score of an item is the sum, over the de-duplicated
\* terms, of 1.0 per term in its text, 1.5 per term in its material title,
\* 1.2 per term in its lesson blob and 2.6 per term in its homework, plus
\* 3.0 when the query is bathroom-related and the text holds a bathroom
\* token; and only items whose score is above 0 are returned.
C13_ScoreIsWeightedSum ==
    (call.fn = "kb_candidates_keyword" /\ call.args.query # EMPTY) =>
        With(CallScores, LAMBDA s :
        With(ClaimTerms(normalize(call.args.query)), LAMBDA T :
        With(NeedBath(normalize(call.args.query)), LAMBDA bath :
            /\ \A n \in 1..Len(KB_INDEX) : s[n] = ClaimScore(KB_INDEX[n], T, bath)
            /\ \A r \in 1..Len(Results) : ClaimScore(Results[r], T, bath) > 0)))

\* C13 happens: for a query whose term list repeats a term before line 777,
\* the first candidate has the term in all four fields and gets the
\* bathroom bonus, 1.0 + 1.5 + 1.2 + 2.6 + 3.0, and an item scores nothing.
C13_Witness ==
    /\ call.fn = "kb_candidates_keyword"
    /\ call.args.query = Q_vanna_tualet
    /\ Len(Results) >= 1
    /\ CallScores[ResultAt(1)] = 93
    /\ \E n \in 1..Len(KB_INDEX) : CallScores[n] = 0

\* Items a and b agree in every field but the homework (and the text, which
\* holds the homework).
SameButHomework(a, b) ==
    \A f \in DOMAIN a \ {"homework", "text"} : a[f] = b[f]

\* The homework of b holds the homework of a and, on top of it, a term of
\* the normalized query q that the homework of a lacks.
HomeworkGainsTerm(a, b, q) ==
    /\ Contains(b.homework, a.homework)
    /\ \E w \in ClaimTerms(q) :
           /\ Contains(normalize(b.homework), w)
           /\ ~Contains(normalize(a.homework), w)

\* C14: of two parsed items that are identical except that the homework of
\* one additionally contains a query term, that one scores at least as
\* much as the other.
C14_HomeworkMatchNeverLowers ==
    (call.fn = "kb_candidates_keyword" /\ call.args.query # EMPTY) =>
        With(CallScores, LAMBDA s :
            \A a, b \in 1..Len(KB_INDEX) :
                (/\ SameButHomework(KB_INDEX[a], KB_INDEX[b])
                 /\ HomeworkGainsTerm(KB_INDEX[a], KB_INDEX[b],
                                      normalize(call.args.query)))
                    => s[b] >= s[a])

\* C14 happens: the index holds a lesson and the same lesson with a
\* homework that contains a query term; both score, the second more.
C14_Witness ==
    /\ call.fn = "kb_candidates_keyword"
    /\ \E a, b \in 1..Len(KB_INDEX) :
           /\ SameButHomework(KB_INDEX[a], KB_INDEX[b])
           /\ HomeworkGainsTerm(KB_INDEX[a], KB_INDEX[b], normalize(call.args.query))
           /\ CallScores[a] > 0
           /\ CallScores[b] > CallScores[a]
           /\ Results[1] = KB_INDEX[b]

(***************************************************************************)
(* C15: what format_kb_hits shows of a list of hits, read off its text     *)
(***************************************************************************)

\* The positions of the text at which a line starts with lit.
LinesWith(text, lit) ==
    { p \in 1..Len(text) :
        /\ text[p] = lit[1]
        /\ (p = 1 \/ text[p - 1] = 10)
        /\ StartsAt(text, p, lit) }

\* The least element of a non-empty set of numbers.
Least(S) == CHOOSE p \in S : \A q \in S : p <= q

\* The position after the line of text that holds position p.
LineEnd(text, p) == Least({ q \in p..Len(text) : text[q] = 10 } \cup {Len(text) + 1})

\* The positions at which the lesson blocks of a text open.
BlockStarts(text) == LinesWith(text, Strip(F_block))

\* The k-th lesson block of a text: from its opening line up to the next
\* opening line.
BlockOf(text, k) ==
    With(BlockStarts(text), LAMBDA S :
    With(CHOOSE p \in S : Cardinality({ q \in S : q < p }) = k - 1, LAMBDA p :
        SubSeq(text, p, Least({ q \in S : q > p } \cup {Len(text) + 1}) - 1)))

\* What follows the label pre on the line of the block b that starts with
\* it; the empty text when b has no such line.
Shown(b, pre) ==
    With(LinesWith(b, pre), LAMBDA S :
        IF S = {} THEN EMPTY
        ELSE SubSeq(b, Least(S) + Len(pre), LineEnd(b, Least(S) + Len(pre)) - 1))

\* The link shown by the block b: the line under the label of the link.
ShownLink(b) == Shown(b, Strip(F_link) \o NEWLINE)

\* The lesson identity of the claim: lesson_url, else lesson_title.
Identity(url, title) == IF url # EMPTY THEN url ELSE title

\* The positions of the hits that are the first of their lesson, in order.
FirstOfLesson(hits) ==
    SelectSeq([n \in 1..Len(hits) |-> n], LAMBDA n :
        \A m \in 1..(n - 1) :
            Identity(hits[m].lesson_url, hits[m].lesson_title)
                # Identity(hits[n].lesson_url, hits[n].lesson_title))

\* C15: the text format_kb_hits returns for a list of hits has at most three
\* lesson blocks, no two of them for the same lesson identity (lesson_url,
\* else lesson_title): it has one block for each of the first three distinct
\* lessons of the list, and that block shows the section of the first hit of
\* the lesson, so hits that share a lesson_url and differ in section give
\* exactly one block, that of the first of them.  The empty list gives the
\* empty text.
C15_OneBlockPerLesson ==
    call.fn = "format_kb_hits" =>
        With(call.args.hits, LAMBDA hits :
        With(Results, LAMBDA ls :
        With(Cardinality(BlockStarts(ls)), LAMBDA nblocks :
        With(FirstOfLesson(hits), LAMBDA first :
            /\ hits = EMPTY => Results = EMPTY
            /\ nblocks <= 3
            /\ nblocks = (IF Len(first) < 3 THEN Len(first) ELSE 3)
            /\ \A k \in 1..nblocks :
                   With(BlockOf(ls, k), LAMBDA b :
                       /\ Identity(ShownLink(b), Shown(b, F_lesson))
                              = Identity(hits[first[k]].lesson_url,
                                         hits[first[k]].lesson_title)
                       /\ Shown(b, F_section) = hits[first[k]].section_title)
            /\ \A j, k \in 1..nblocks :
                   j # k => Identity(ShownLink(BlockOf(ls, j)), Shown(BlockOf(ls, j), F_lesson))
                                # Identity(ShownLink(BlockOf(ls, k)), Shown(BlockOf(ls, k), F_lesson))))))

\* Four hits have been formatted: the first and the third are two sections
\* of one linked lesson, the later section of the document first; the text
\* has three blocks, and only its first one carries that link, with the
\* section of the first hit.
C15_Witness ==
    /\ call.fn = "format_kb_hits"
    /\ Len(call.args.hits) = 4
    /\ call.args.hits[1].lesson_url # EMPTY
    /\ call.args.hits[1].lesson_url = call.args.hits[3].lesson_url
    /\ call.args.hits[1].section_title # call.args.hits[3].section_title
    /\ \E a, b \in 1..Len(KB_INDEX) :
           a < b /\ KB_INDEX[b] = call.args.hits[1] /\ KB_INDEX[a] = call.args.hits[3]
    /\ With(Results, LAMBDA ls :
           /\ Cardinality(BlockStarts(ls)) = 3
           /\ ShownLink(BlockOf(ls, 1)) = call.args.hits[1].lesson_url
           /\ Shown(BlockOf(ls, 1), F_section) = call.args.hits[1].section_title
           /\ ShownLink(BlockOf(ls, 2)) # call.args.hits[1].lesson_url
           /\ ShownLink(BlockOf(ls, 3)) # call.args.hits[1].lesson_url)

(***************************************************************************)
(* C16: the material name shown for an item                                *)
(***************************************************************************)

\* The query concerns a collage or 3D topic: the test of line 885 on the
\* normalized query.
CollageTopic(query) ==
    With(normalize(query), LAMBDA q :
        \E w \in { W_kollazh, W_3d_ru, W_3d } : Contains(q, w))

\* C16 (as stated): best_material_name returns the homework when the query
\* concerns a collage/3D topic and the item has a homework, whole if it has
\* at most 240 characters and else its first 240 characters followed by an
\* ellipsis; in every other case it returns the item's material title.
C16_HomeworkOrMaterialTitle ==
    call.fn = "best_material_name" =>
        With(call.args.it, LAMBDA it :
            Results =
                IF CollageTopic(call.args.query) /\ it.homework # EMPTY
                THEN IF Len(it.homework) <= 240 THEN it.homework
                     ELSE SubSeq(it.homework, 1, 240) \o ELLIPSIS
                ELSE it.material_title)

\* C16 (amended): as above, but the first 240 characters of a longer
\* homework lose their trailing white space before the ellipsis is added,
\* and an item whose material title is empty is named "(материал)".
C16_HomeworkTrimmedOrMaterialName ==
    call.fn = "best_material_name" =>
        With(call.args.it, LAMBDA it :
            Results =
                IF CollageTopic(call.args.query) /\ it.homework # EMPTY
                THEN IF Len(it.homework) <= 240 THEN it.homework
                     ELSE RStrip(SubSeq(it.homework, 1, 240)) \o ELLIPSIS
                ELSE IF it.material_title # EMPTY THEN it.material_title
                     ELSE NoMaterialName)

\* A collage query met a homework of more than 240 characters whose 240th
\* is a space: the name is its first 239 characters and the ellipsis.
C16_Witness ==
    /\ call.fn = "best_material_name"
    /\ CollageTopic(call.args.query)
    /\ Len(call.args.it.homework) > 240
    /\ call.args.it.homework[240] = 32
    /\ Results = SubSeq(call.args.it.homework, 1, 239) \o ELLIPSIS

(***************************************************************************)
(* C17: the collage question, end to end                                   *)
(***************************************************************************)

\* "собрать 3D коллаж ванной комнаты в стиле лофт"
CollageHomework ==
    << 1089, 1086, 1073, 1088, 1072, 1090, 1100, 32, 51, 68, 32, 1082, 1086,
       1083, 1083, 1072, 1078, 32, 1074, 1072, 1085, 1085, 1086, 1081, 32,
       1082, 1086, 1084, 1085, 1072, 1090, 1099, 32, 1074, 32, 1089, 1090,
       1080, 1083, 1077, 32, 1083, 1086, 1092, 1090 >>

\* "3D коллаж"
CollageSection ==
    << 51, 68, 32, 1082, 1086, 1083, 1083, 1072, 1078 >>

\* "референсы"
References ==
    << 1088, 1077, 1092, 1077, 1088, 1077, 1085, 1089, 1099 >>

\* An item of the lesson of the claim.
OfCollageLesson(it) ==
    it.section_title = CollageSection /\ it.homework = CollageHomework

\* A label of the output as the start of a line.
Label(f) == IF f[1] = 10 THEN Tail(f) ELSE f

\* The lesson blocks of a text.
BlocksOf(text) == { BlockOf(text, k) : k \in 1..Cardinality(BlockStarts(text)) }

\* The text shows the lesson of the given title with the homework of the
\* claim as its material name.
ShowsCollageLesson(text, title) ==
    \E b \in BlocksOf(text) :
        /\ Shown(b, F_lesson) = title
        /\ Shown(b, Label(F_material_name)) = CollageHomework

\* The collage question has been put to a corpus that holds the lesson.
CollageAsked ==
    /\ call.fn = "webhook"
    /\ call.args.text = Q_where_collage
    /\ \E it \in SeqSet(KB_INDEX) : OfCollageLesson(it)

\* C17 (as stated): with a corpus that holds the collage lesson, the query
\* 'где урок про 3d коллаж ванной' yields a formatted result that contains
\* the lesson, and the material name shown for it is the homework text.
C17_CollageQuestionShowsLesson ==
    CollageAsked =>
        \E it \in SeqSet(KB_INDEX) :
            OfCollageLesson(it) /\ ShowsCollageLesson(Results, it.lesson_title)

\* C17 (amended): for that corpus and query, when the semantic search gives
\* nothing the candidates handed to the judge hold the items of the lesson;
\* when the selection holds an item of the lesson that is the first of its
\* lesson identity (lesson_url, else lesson_title), the result shows the
\* lesson with the homework text, not 'референсы', as its material name;
\* when the selection holds no item of the lesson, the result shows no
\* block with that homework as material name.
C17_SelectedLessonShownByHomework ==
    CollageAsked =>
        /\ (KB_EMB_VECS = EMPTY \/ ~call.args.embed.ok) =>
               \A it \in SeqSet(KB_INDEX) : OfCollageLesson(it) => it \in SeqSet(out.cand)
        /\ \A n \in 1..Len(out.picked) :
               With(out.picked[n], LAMBDA it :
                   (/\ OfCollageLesson(it)
                    /\ \A m \in 1..(n - 1) :
                           Identity(out.picked[m].lesson_url, out.picked[m].lesson_title)
                               # Identity(it.lesson_url, it.lesson_title))
                   => /\ ShowsCollageLesson(Results, it.lesson_title)
                      /\ \A b \in BlocksOf(Results) :
                             Shown(b, F_section) = CollageSection
                                 => Shown(b, Label(F_material_name)) # References)
        /\ (\A n \in 1..Len(out.picked) : ~OfCollageLesson(out.picked[n])) =>
               \A b \in BlocksOf(Results) :
                   Shown(b, Label(F_material_name)) # CollageHomework

\* No vector table, and the judge picked the second of the three lexical
\* candidates, the item 'референсы' of the collage lesson: the result shows
\* the lesson under the name of its homework.
C17_Witness ==
    /\ CollageAsked
    /\ KB_EMB_VECS = EMPTY
    /\ call.args.chat.ok
    /\ Len(out.cand) = 3
    /\ Len(out.picked) = 1
    /\ OfCollageLesson(out.picked[1])
    /\ out.picked[1].material_title = References
    /\ ShowsCollageLesson(Results, out.picked[1].lesson_title)

(***************************************************************************)
(* C18, C19: the list of the lessons of a module, read off its text        *)
(***************************************************************************)

\* The number a title starts with (0 when it starts with none).
LeadingNumber(title) == Int_(SubSeq(title, 1, SkipWhile(title, 1, IsDigit) - 1))

\* The item belongs to the module of the given number: its module title
\* starts with that number, written without leading zeros.
InModule(it, module_num) ==
    SubSeq(it.module_title, 1, SkipWhile(it.module_title, 1, IsDigit) - 1) = Str(module_num)

\* The text is a list of lessons.
IsListing(text) == StartsAt(text, 1, M_header)

\* The places of a list where an entry starts, first to last.
EntryStarts(text) ==
    With(LinesWith(text, M_item), LAMBDA S :
        [r \in 1..Cardinality(S) |->
            CHOOSE p \in S : Cardinality({ q \in S : q < p }) + 1 = r])

\* The title of the entry of a list that starts at p, and the line under it.
EntryTitle(text, p) ==
    SubSeq(text, p + Len(M_item), LineEnd(text, p) - Len(M_item_tail))

EntryLink(text, p) ==
    SubSeq(text, LineEnd(text, p) + 1, LineEnd(text, LineEnd(text, p) + 1) - 1)

\* The titles a list shows, first to last.
ListedTitles(text) ==
    With(EntryStarts(text), LAMBDA starts :
        [r \in 1..Len(starts) |-> EntryTitle(text, starts[r])])

\* C18: format_module_lessons lists the lessons of the requested module, each
\* once, in ascending order of the number their titles start with, whatever
\* their order in the document.
C18_ListedByLessonNumber ==
    (call.fn = "format_module_lessons" /\ IsListing(Results)) =>
        With(ListedTitles(Results), LAMBDA titles :
            /\ SeqSet(titles)
                   = { it.lesson_title : it \in { x \in SeqSet(KB_INDEX) :
                                                    InModule(x, call.args.module_num) } }
            /\ \A i, j \in 1..Len(titles) :
                   i < j => /\ titles[i] # titles[j]
                            /\ LeadingNumber(titles[i]) <= LeadingNumber(titles[j]))

\* The index holds lesson 3 and after it lesson 1 of the module asked for,
\* and the list shows lesson 1 first and lesson 3 second.
C18_Witness ==
    /\ call.fn = "format_module_lessons"
    /\ IsListing(Results)
    /\ \E a, b \in 1..Len(KB_INDEX) :
           /\ a < b
           /\ InModule(KB_INDEX[a], call.args.module_num)
           /\ InModule(KB_INDEX[b], call.args.module_num)
           /\ LeadingNumber(KB_INDEX[a].lesson_title) = 3
           /\ LeadingNumber(KB_INDEX[b].lesson_title) = 1
           /\ ListedTitles(Results) = << KB_INDEX[b].lesson_title, KB_INDEX[a].lesson_title >>

\* The first link the items of the module give for the lesson title.
KnownLink(module_num, title) ==
    With(SelectSeq(KB_INDEX, LAMBDA it :
             InModule(it, module_num) /\ it.lesson_title = title /\ it.lesson_url # EMPTY),
         LAMBDA linked : IF linked = EMPTY THEN EMPTY ELSE linked[1].lesson_url)

\* C19: format_module_lessons has distinguishable outcomes.  When no item of
\* the index belongs to the requested module the result is an explicit
\* message (the module was not found; the knowledge base is not loaded when
\* the index is empty) and no list.  When items belong to it the result is
\* a non-empty list that shows under each lesson its link or, for a lesson
\* without one, the placeholder; so lessons without links never make the
\* result the not-found message.
C19_NotFoundOrListing ==
    call.fn = "format_module_lessons" =>
        With(call.args.module_num, LAMBDA n :
            IF \A it \in SeqSet(KB_INDEX) : ~InModule(it, n)
            THEN /\ Results = (IF KB_INDEX = EMPTY THEN M_not_loaded
                               ELSE M_not_found \o Str(n) \o M_not_found_tail)
                 /\ ~IsListing(Results)
            ELSE /\ IsListing(Results)
                 /\ ~StartsAt(Results, 1, M_not_found)
                 /\ With(EntryStarts(Results), LAMBDA starts :
                        /\ Len(starts) > 0
                        /\ \A r \in 1..Len(starts) :
                               With(KnownLink(n, EntryTitle(Results, starts[r])), LAMBDA url :
                                   EntryLink(Results, starts[r])
                                       = (IF url # EMPTY THEN url ELSE M_no_link))))

\* The module asked for has a lesson with a link and a lesson without one:
\* the list shows both, the second with the placeholder.
C19_Witness ==
    /\ call.fn = "format_module_lessons"
    /\ IsListing(Results)
    /\ With(EntryStarts(Results), LAMBDA starts :
           /\ Len(starts) = 2
           /\ \E r, s \in 1..2 :
                  /\ EntryLink(Results, starts[r]) = M_no_link
                  /\ KnownLink(call.args.module_num, EntryTitle(Results, starts[r])) = EMPTY
                  /\ EntryLink(Results, starts[s]) # M_no_link
                  /\ EntryLink(Results, starts[s])
                         = KnownLink(call.args.module_num, EntryTitle(Results, starts[s])))

(***************************************************************************)
(* C20: a lesson without sections                                          *)
(***************************************************************************)

\* The line after the block of the lesson whose header is line p: the next
\* header line of any kind, or the end of the document.
BlockEnd(lines, p) ==
    Least({ q \in (p + 1)..Len(lines) : IsHeader(Strip(lines[q])) } \cup {Len(lines) + 1})

\* No line of the block of the lesson at line p matches the pattern
\* 'Раздел title: materials'.
NoSectionLine(lines, p) ==
    \A q \in (p + 1)..(BlockEnd(lines, p) - 1) : ~SECTION_FULL_RE(Strip(lines[q]))

\* The items of the index that come from the lesson at line p.
ItemsOfLesson(p) == { n \in 1..Len(KB_INDEX) : itemLine[n] = p }

\* C20: a lesson whose block has no line matching the pattern 'Раздел title:
\* materials' yields exactly one item, with an empty section title and the
\* material title '(материал не указан)'.
C20_NoSectionGivesSentinel ==
    \A p \in 1..Len(frame.lines) :
        (Scanned("lesson", p) /\ NoSectionLine(frame.lines, p)) =>
            /\ Cardinality(ItemsOfLesson(p)) = 1
            /\ \A n \in ItemsOfLesson(p) :
                   /\ KB_INDEX[n].section_title = EMPTY
                   /\ KB_INDEX[n].material_title = NoMaterial

\* load_kb has returned; a lesson whose block holds one line, which is no
\* section line, gave one item with the sentinel, and another lesson of the
\* document gave items with a section title.
C20_Witness ==
    /\ pc = "idle"
    /\ ret.status = "OK"
    /\ \E p \in 1..Len(frame.lines) :
           /\ Scanned("lesson", p)
           /\ BlockEnd(frame.lines, p) = p + 2
           /\ NoSectionLine(frame.lines, p)
           /\ Cardinality(ItemsOfLesson(p)) = 1
           /\ \A n \in ItemsOfLesson(p) : KB_INDEX[n].material_title = NoMaterial
    /\ \E n \in 1..Len(KB_INDEX) : KB_INDEX[n].section_title # EMPTY

(***************************************************************************)
(* Lesson blocks: load_kb on documents whose lessons carry a link line, a  *)
(* homework line and section lines.                                        *)
(***************************************************************************)

\* Lines of the lesson specification: a Step header, a lesson header, a
\* lesson header with a link on the same line, a lesson link line, a
\* homework line, a section with two materials and a section whose
\* material list holds no material.
LessonPool ==
    << \* "1 ступень"
       << 49, 32, 1089, 1090, 1091, 1087, 1077, 1085, 1100 >>,
       \* "1 урок"
       << 49, 32, 1091, 1088, 1086, 1082 >>,
       \* "2 урок https://u.ru"
       << 50, 32, 1091, 1088, 1086, 1082, 32, 104, 116, 116, 112, 115, 58,
          47, 47, 117, 46, 114, 117 >>,
       \* "Ссылка: https://l.ru"
       << 1057, 1089, 1099, 1083, 1082, 1072, 58, 32, 104, 116, 116, 112,
          115, 58, 47, 47, 108, 46, 114, 117 >>,
       \* "ДЗ: d"
       << 1044, 1047, 58, 32, 100 >>,
       \* "Раздел A: x, y"
       << 1056, 1072, 1079, 1076, 1077, 1083, 32, 65, 58, 32, 120, 44, 32,
          121 >>,
       \* "Раздел B: ,"
       << 1056, 1072, 1079, 1076, 1077, 1083, 32, 66, 58, 32, 44 >> >>

\* Startup with a document of lesson blocks on disk.
InitLesson ==
    /\ kb_file \in DocsOver(LessonPool, 1, MaxLines)
    /\ budget = 1
    /\ Fresh

\* One load_kb call; the documents hold no blank line, no Course header and
\* no Module header, so the iterations on such lines never run.
NextLesson ==
    \/ LoadKbBegin
    \/ LoopStep
    \/ LoopLesson
    \/ LoopOther
    \/ LoadKbReturn

SpecLesson == InitLesson /\ [][NextLesson]_vars

(***************************************************************************)
(* C22: load_kb on a missing, empty or header-less corpus.                 *)
(***************************************************************************)

\* The corpus file the last finished load_kb call read.
LastLoaded == loads[Len(loads)].file

\* No line of the document is a header line.
NoHeaderLine(file) ==
    \A q \in 1..Len(file.lines) : ~IsHeader(Strip(file.lines[q]))

\* C22: load_kb never raises on a missing, empty or malformed corpus: the
\* scan never reads a line outside the document, every call returns a
\* status, a missing or an empty corpus gives an empty index with the status
\* that says so, and a document without a header line gives an empty index
\* with the status 'OK'.
C22_LoadKbAlwaysReturns ==
    /\ pc = "scan" => frame.i \in 1..(Len(frame.lines) + 1)
    /\ (pc = "idle" /\ loads # EMPTY) =>
          /\ ret.status \in {"KB not found", "KB empty", "OK"}
          /\ ~LastLoaded.exists =>
                 (KB_INDEX = EMPTY /\ ret = [n |-> 0, status |-> "KB not found"])
          /\ (LastLoaded.exists /\ LastLoaded.lines = EMPTY) =>
                 (KB_INDEX = EMPTY /\ ret = [n |-> 0, status |-> "KB empty"])
          /\ (LastLoaded.exists /\ LastLoaded.lines # EMPTY /\ NoHeaderLine(LastLoaded)) =>
                 (KB_INDEX = EMPTY /\ ret = [n |-> 0, status |-> "OK"])

\* A first load_kb call built items; the corpus file was then deleted and
\* the second call returned 'KB not found' with the index emptied.
C22_Witness ==
    /\ pc = "idle"
    /\ Len(loads) = 2
    /\ loads[1].index # EMPTY
    /\ ~LastLoaded.exists
    /\ ret.status = "KB not found"
    /\ KB_INDEX = EMPTY

(***************************************************************************)
(* The side-car file of vectors: load_embeddings() (main.py lines 645-686) *)
(* on what the file holds.  The file is missing, is no JSON, is JSON of no *)
(* recognized form, or holds a list of records.  A record is a dict with a *)
(* list of numbers under "embedding", a dict without such a list (the key  *)
(* missing, the list empty or its first element no number), a value that   *)
(* is no dict, or a dict whose list starts with a number and holds an      *)
(* element float() rejects.                                                *)
(***************************************************************************)

VectorRecord(vec) == [kind |-> "vector", embedding |-> vec]

NoEmbeddingRecord == [kind |-> "no_embedding", embedding |-> EMPTY]

NotDictRecord == [kind |-> "not_dict", embedding |-> EMPTY]

MixedRecord == [kind |-> "mixed", embedding |-> EMPTY]

MissingArtifact == [state |-> "missing", records |-> EMPTY]

UnreadableArtifact == [state |-> "unreadable", records |-> EMPTY]

UnrecognizedArtifact == [state |-> "unrecognized", records |-> EMPTY]

RecordsArtifact(records) == [state |-> "records", records |-> records]

\* Lines 671-676: the vectors of the records that have one, in file order;
\* the other records are passed over.
VectorsOf(records) ==
    With(SelectSeq(records, LAMBDA it : it.kind = "vector"), LAMBDA kept :
        [n \in 1..Len(kept) |-> kept[n].embedding])

\* Line 676: float(x) raises on an element that is no number.
ConversionRaises(records) ==
    \E n \in 1..Len(records) : records[n].kind = "mixed"

\* What load_embeddings returns: (count, status).
Loaded(n, status) == Returned([n |-> n, status |-> status])

\* main.py load_embeddings(), for the index and the file: the table it
\* leaves in KB_EMB_VECS and what it returns.  Line 647 empties the table
\* first; only lines 682 and 685 assign it again.
load_embeddings(index, art) ==
    IF art.state = "missing"
    THEN [table |-> EMPTY, out |-> Loaded(0, "Embeddings not found")]
    ELSE IF art.state = "unreadable"
    THEN [table |-> EMPTY, out |-> Loaded(0, "Embeddings JSON read error")]
    ELSE IF art.state = "unrecognized"
    THEN [table |-> EMPTY, out |-> Loaded(0, "Embeddings JSON format not recognized")]
    ELSE IF ConversionRaises(art.records)
    THEN [table |-> EMPTY, out |-> Raised]
    ELSE IF VectorsOf(art.records) = EMPTY
    THEN [table |-> EMPTY, out |-> Loaded(0, "No vectors found in embeddings.json")]
    ELSE With(AlignVectors(index, VectorsOf(art.records)), LAMBDA table :
             [table |-> table,
              out |-> Loaded(Len(table),
                             IF index # EMPTY /\ Len(VectorsOf(art.records)) >= Len(index)
                             THEN "OK (aligned)" ELSE "OK (unaligned)")])

\* load_embeddings() at startup, on the side-car file art.
LoadArtifact(art) ==
    /\ pc = "idle"
    /\ KB_EMB_VECS' = load_embeddings(KB_INDEX, art).table
    /\ call' = [fn |-> "load_embeddings", args |-> [artifact |-> art]]
    /\ out' = load_embeddings(KB_INDEX, art).out
    /\ UNCHANGED << chatVars, kb_file, KB_INDEX, pc, frame, ret, budget, itemLine, scanned,
                    loads, snapshot >>

MaxItems == 3

\* " урок"
L_space_urok == << 32, 1091, 1088, 1086, 1082 >>

\* The corpora '1 урок', '2 урок', ... of at most MaxItems bare lessons:
\* one item per lesson, told apart by the lesson title.
ItemDocs ==
    { [exists |-> TRUE, lines |-> [n \in 1..len |-> Str(n) \o L_space_urok]] :
        len \in 0..MaxItems }

\* The records of the side-car files: two vectors and the three kinds of
\* record without a usable vector.
RecordPool ==
    { VectorRecord(<< 1, 0 >>), VectorRecord(<< 0, 1 >>),
      NoEmbeddingRecord, NotDictRecord, MixedRecord }

MaxRecords == 3

Artifacts ==
    { MissingArtifact, UnreadableArtifact, UnrecognizedArtifact }
    \cup { RecordsArtifact(records) :
             records \in UNION { [1..len -> RecordPool] : len \in 0..MaxRecords } }

\* The process after load_kb() read one of the corpora of bare lessons.
InitEmbeddings ==
    /\ kb_file \in ItemDocs
    /\ KB_INDEX = ParseDoc(kb_file)
    /\ KB_EMB_VECS = EMPTY
    /\ ret = [n |-> Len(KB_INDEX),
              status |-> IF kb_file.lines = EMPTY THEN "KB empty" ELSE "OK"]
    /\ budget = 0
    /\ itemLine = [n \in 1..Len(KB_INDEX) |-> 0]
    /\ snapshot = KB_INDEX
    /\ Quiet

\* _startup() calls load_embeddings(), whatever the side-car file holds.
StartupArtifact ==
    /\ call = NoCall
    /\ \E art \in Artifacts : LoadArtifact(art)

\* The vector search of the webhook (k = 20) once startup is over: an
\* exception out of _startup() keeps the application from serving.
VectorQuery ==
    /\ call.fn = "load_embeddings"
    /\ ~out.raised
    /\ \E reply \in EmbedReplies : CallSemantic(Q_urok, HandlerK, reply)

NextEmbeddings ==
    \/ StartupArtifact
    \/ VectorQuery

SpecEmbeddings == InitEmbeddings /\ [][NextEmbeddings]_vars

(***************************************************************************)
(* C23: the vector table against the item count.                           *)
(***************************************************************************)

\* load_embeddings has just run on a file of records none of which makes
\* the conversion of line 676 raise.
LoadedRecords ==
    /\ call.fn = "load_embeddings"
    /\ call.args.artifact.state = "records"
    /\ ~ConversionRaises(call.args.artifact.records)

\* The smaller of the item count and the size of the vector table.
MinCount == IF Len(KB_INDEX) < Len(KB_EMB_VECS) THEN Len(KB_INDEX) ELSE Len(KB_EMB_VECS)

\* C23: for every item count and every count of loaded vectors, with at
\* least as many vectors as items the table after load_embeddings has
\* exactly as many vectors as there are items, otherwise it keeps all the
\* vectors loaded; no load and no vector search raises, and the search
\* returns items of positions up to min(items, vectors) only.
C23_TableAlignedToItems ==
    /\ LoadedRecords =>
          /\ ~out.raised
          /\ With(VectorsOf(call.args.artifact.records), LAMBDA read :
                 IF Len(read) >= Len(KB_INDEX)
                 THEN Len(KB_EMB_VECS) = Len(KB_INDEX)
                 ELSE KB_EMB_VECS = read)
    /\ call.fn = "kb_candidates_semantic" =>
          /\ ~out.raised
          /\ \A r \in 1..Len(Results) :
                 \E n \in 1..MinCount : Results[r] = KB_INDEX[n]

(***************************************************************************)
(* The process serving: after startup the query functions are called in    *)
(* any order and any number of times, the selector on what a candidate     *)
(* search returned and the formatter on what the selector returned.        *)
(***************************************************************************)

\* _startup() is over.
Up == pc = "idle" /\ call # NoCall

CandidateFns == {"kb_candidates_keyword", "kb_candidates_semantic", "kb_candidates"}

\* Two corpora: a lesson with a link and a section of two materials followed
\* by a bare lesson; the first lesson with a homework.
ServingDocs ==
    { [exists |-> TRUE, lines |-> LessonBlocks[2] \o LessonBlocks[1]],
      [exists |-> TRUE, lines |-> LessonBlocks[3]] }

\* The messages: "урок" and "ванна".
ServingTexts == { Q_urok, << 1074, 1072, 1085, 1085, 1072 >> }

ServeKeyword ==
    /\ Up
    /\ \E text \in ServingTexts : CallKeyword(text, HandlerK)

ServeSemantic ==
    /\ Up
    /\ \E text \in ServingTexts, embed \in EmbedReplies :
           CallSemantic(text, HandlerK, embed)

ServeCandidates ==
    /\ Up
    /\ \E text \in ServingTexts, embed \in EmbedReplies :
           CallCandidates(text, HandlerK, embed)

ServeSelect ==
    /\ Up
    /\ call.fn \in CandidateFns
    /\ ~out.raised
    /\ \E chat \in LessonJudgeReplies : CallSelect(out.value, chat)

ServeFormat ==
    /\ Up
    /\ call.fn = "kb_select_with_llm"
    /\ \E text \in ServingTexts : CallFormat(out.value, text)

ServeModule ==
    /\ Up
    /\ \E module_num \in 0..MaxModule : CallModuleLessons(module_num)

InitServing == LoadedFrom(ServingDocs)

NextServing ==
    \/ Startup
    \/ ServeKeyword
    \/ ServeSemantic
    \/ ServeCandidates
    \/ ServeSelect
    \/ ServeFormat
    \/ ServeModule

SpecServing == InitServing /\ [][NextServing]_vars

(***************************************************************************)
(* C24: the query functions only read the shared state.                    *)
(***************************************************************************)

QueryFns ==
    CandidateFns \cup {"kb_select_with_llm", "format_kb_hits", "format_module_lessons"}

Ascending(S) ==
    [k \in 1..Cardinality(S) |-> CHOOSE q \in S : Cardinality({ r \in S : r < q }) = k - 1]

\* The non-blank lines of the block of the lesson at line p.
BlockLinesOf(lines, p) ==
    { q \in (p + 1)..(BlockEnd(lines, p) - 1) : Strip(lines[q]) # EMPTY }

\* What a line of a lesson block is read as: a lesson link line, else a
\* homework line, else a section line.
LineRole(s) ==
    IF LESSON_URL_LINE_RE(s) THEN "link"
    ELSE IF DZ_RE(s) THEN "homework"
    ELSE "section"

\* The role of every line of the block of the lesson at line p.
BlockRoles(lines, p) ==
    With(BlockLinesOf(lines, p), LAMBDA B : [q \in B |-> LineRole(Strip(lines[q]))])

LinesOfRole(roles, role) == { q \in DOMAIN roles : roles[q] = role }

\* The recognized sections of a lesson: the section lines of its block that
\* match the pattern 'Раздел title: materials'.
SectionLinesOf(lines, roles) ==
    { q \in LinesOfRole(roles, "section") : SECTION_FULL_RE(Strip(lines[q])) }

\* The title of a section line without quotes: what stands between the word
\* 'Раздел' and the first colon.
TitleOfSection(s) == Strip(SubSeq(s, Len(L_razdel) + 1, FirstOf(s, 58) - 1))

\* The materials of a section line, in comma order: the non-blank parts of
\* what follows the first colon, each trimmed of blanks, dots and semicolons.
MaterialsOfSection(s) ==
    With(Split(SubSeq(s, FirstOf(s, 58) + 1, Len(s)), 44), LAMBDA parts :
    With(SelectSeq(parts, LAMBDA part : Strip(part) # EMPTY), LAMBDA kept :
        [n \in 1..Len(kept) |-> StripBy(Strip(kept[n]), IsMaterialTrim)]))

\* The (section, material) pairs of a section line.
PairsOfSection(s) ==
    With(MaterialsOfSection(s), LAMBDA mats :
        [n \in 1..Len(mats) |-> << TitleOfSection(s), mats[n] >>])

\* The same, a section without a material giving one pair with the
\* material '(материал не указан)'.
PairsOrSentinel(s) ==
    With(PairsOfSection(s), LAMBDA pairs :
        IF pairs = EMPTY THEN << << TitleOfSection(s), NoMaterial >> >> ELSE pairs)

\* The (section_title, material_title) pairs of the items of the lesson at
\* line p, in index order.
EmittedPairs(p) ==
    With(Ascending(ItemsOfLesson(p)), LAMBDA ns :
        [k \in 1..Len(ns) |-> << KB_INDEX[ns[k]].section_title,
                                 KB_INDEX[ns[k]].material_title >>])

\* What a line holds from its first 'http' on.
LinkIn(s) ==
    SubSeq(s, Least({ q \in 1..Len(s) : StartsAt(s, q, L_http) } \cup {Len(s) + 1}), Len(s))

\* What a line holds after its first colon, stripped.
AfterColon(s) == Strip(SubSeq(s, FirstOf(s, 58) + 1, Len(s)))

\* f of the last line of a set of lines, or the empty text for no line.
LastLineUnder(lines, S, f(_)) ==
    IF S = {} THEN EMPTY
    ELSE f(Strip(lines[CHOOSE q \in S : \A r \in S : r <= q]))

\* The link of a lesson: that of the last link line of its block.
LinkOfLesson(lines, roles) == LastLineUnder(lines, LinesOfRole(roles, "link"), LinkIn)

\* The homework of a lesson: that of the last homework line of its block.
HomeworkOfLesson(lines, roles) ==
    LastLineUnder(lines, LinesOfRole(roles, "homework"), AfterColon)

\* The blob of a lesson: the section lines of its block, one per line.
BlobOfLesson(lines, roles) ==
    With(Ascending(LinesOfRole(roles, "section")), LAMBDA qs :
        Strip(Join([k \in 1..Len(qs) |-> Strip(lines[qs[k]])], NEWLINE)))

\* The last header of the given kind the scan took above line p, or 0.
LastScanned(kind, p) ==
    With({ s \in 1..Len(scanned) : scanned[s].kind = kind /\ scanned[s].line < p },
         LAMBDA S : IF S = {} THEN 0 ELSE scanned[CHOOSE s \in S : \A r \in S : r <= s].line)

\* What the items of the lesson at line p have in common under the claim: the
\* lesson's title, link, homework and blob and the titles of the Course, Step
\* and Module headers the scan took last, the module being empty after a
\* later Step header.
CommonFields(p, roles) ==
    [lesson_title |-> Strip(frame.lines[p]),
     lesson_url   |-> LinkOfLesson(frame.lines, roles),
     homework     |-> HomeworkOfLesson(frame.lines, roles),
     lesson_blob  |-> BlobOfLesson(frame.lines, roles),
     course_title |-> TitleAt(frame.lines, LastScanned("course", p)),
     step_title   |-> TitleAt(frame.lines, LastScanned("step", p)),
     module_title |-> IF LastScanned("module", p) > LastScanned("step", p)
                      THEN TitleAt(frame.lines, LastScanned("module", p))
                      ELSE EMPTY]

\* The item carries the fields of the record common.
Carries(it, common) ==
    \A field \in DOMAIN common : it[field] = common[field]

\* The pairs of the recognized sections qs, in section order and then in
\* comma order, under the given reading of one section.
PairsOfLesson(qs, pairs(_)) ==
    Concat([k \in 1..Len(qs) |-> pairs(Strip(frame.lines[qs[k]]))])

\* The items of every lesson with recognized sections that the scan took
\* are, in index order, the pairs of its sections under the given reading,
\* and each carries the lesson's fields and the context.
ItemsArePairs(pairs(_)) ==
    \A s \in 1..Len(scanned) :
        scanned[s].kind = "lesson" =>
            With(scanned[s].line, LAMBDA p :
            With(BlockRoles(frame.lines, p), LAMBDA roles :
            With(SectionLinesOf(frame.lines, roles), LAMBDA S :
                S # {} =>
                    /\ EmittedPairs(p) = PairsOfLesson(Ascending(S), pairs)
                    /\ With(CommonFields(p, roles), LAMBDA common :
                           \A n \in ItemsOfLesson(p) : Carries(KB_INDEX[n], common)))))

C25_LessonFieldsFromOwnBlock ==
    \A s \in 1..Len(scanned) :
        scanned[s].kind = "lesson" =>
            With(BlockRoles(frame.lines, scanned[s].line), LAMBDA roles :
            With([lesson_url  |-> LinkOfLesson(frame.lines, roles),
                  homework    |-> HomeworkOfLesson(frame.lines, roles),
                  lesson_blob |-> BlobOfLesson(frame.lines, roles)], LAMBDA own :
                \A n \in ItemsOfLesson(scanned[s].line) :
                    /\ Carries(KB_INDEX[n], own)
                    /\ LinesOfRole(roles, "link") = {} => KB_INDEX[n].lesson_url = EMPTY
                    /\ LinesOfRole(roles, "homework") = {} => KB_INDEX[n].homework = EMPTY))

\* The block of the lesson at line p holds a link line and a homework line
\* (both TRUE) or neither (both FALSE).
LinkAndHomework(p, both) ==
    With(BlockRoles(frame.lines, p), LAMBDA roles :
        /\ (LinesOfRole(roles, "link") # {}) = both
        /\ (LinesOfRole(roles, "homework") # {}) = both)

\* load_kb has returned; a lesson with a link line and a homework line is
\* followed by a lesson with neither, whose item has an empty link and an
\* empty homework while the items of the first have both.
C25_Witness ==
    /\ pc = "idle"
    /\ ret.status = "OK"
    /\ \E p, q \in 1..Len(frame.lines) :
           /\ p < q
           /\ Scanned("lesson", p) /\ Scanned("lesson", q)
           /\ LinkAndHomework(p, TRUE)
           /\ LinkAndHomework(q, FALSE)
           /\ \A n \in ItemsOfLesson(p) :
                  KB_INDEX[n].lesson_url # EMPTY /\ KB_INDEX[n].homework # EMPTY
           /\ ItemsOfLesson(q) # {}
           /\ \A n \in ItemsOfLesson(q) :
                  KB_INDEX[n].lesson_url = EMPTY /\ KB_INDEX[n].homework = EMPTY

(***************************************************************************)
(* C26: every lesson header line of the document yields an item.           *)
(***************************************************************************)

\* C26: once load_kb has read the document, every line of it that matches
\* the Lesson marker has at least one item whose lesson_title is that line:
\* the peek-ahead of a Course, Step or Module header for its link never
\* takes a following header line.
C26_EveryLessonLineYieldsItem ==
    (pc = "idle" /\ ret.status = "OK") =>
        \A p \in 1..Len(frame.lines) :
            LESSON_RE(Strip(frame.lines[p])) =>
                \E n \in ItemsOfLesson(p) :
                    KB_INDEX[n].lesson_title = Strip(frame.lines[p])

(***************************************************************************)
(* C27: a judge response that is JSON of another shape.                    *)
(***************************************************************************)

\* The value is JSON that does not match {pick: list, reason: string}: no
\* object, an object without "pick", or "pick" that is no list.
SchemaMismatch(value) ==
    \/ value.t # "object"
    \/ value.items = EMPTY
    \/ value.items[1].t # "array"

\* C27: when the judge's response deserializes as JSON that is no object,
\* has no "pick" or has a "pick" that is no list, kb_select_with_llm does not
\* raise and returns exactly the top-ranked candidate, not an empty
\* selection.
C27_SchemaMismatchGivesTopOne ==
    (/\ call.fn = "kb_select_with_llm"
     /\ call.args.candidates # EMPTY
     /\ call.args.reply.ok
     /\ call.args.reply.content.json
     /\ SchemaMismatch(call.args.reply.content.value)) =>
        /\ ~out.raised
        /\ Results = Prefix(call.args.candidates, 1)

(***************************************************************************)
(* Module listings of lessons whose titles give no lesson index.  The      *)
(* Lesson marker is matched with re.IGNORECASE, which takes the narrow o   *)
(* (U+1C82) for the letter 'о'; lesson_sort_key lower-cases the title and  *)
(* matches without that flag, so such a title is a lesson title from which *)
(* no index is extracted.                                                  *)
(***************************************************************************)

\* The pieces of the corpora: a module header, a numbered lesson and two
\* lessons written with the narrow o.
UnindexedBlocks ==
    << \* "1 модуль"
       << 49, 32, 1084, 1086, 1076, 1091, 1083, 1100 >>,
       \* "3 урок"
       << 51, 32, 1091, 1088, 1086, 1082 >>,
       \* "2 ур(narrow o)к"
       << 50, 32, 1091, 1088, 7298, 1082 >>,
       \* "1 ур(narrow o)к"
       << 49, 32, 1091, 1088, 7298, 1082 >> >>

MaxUnindexedBlocks == 4

UnindexedDocs == DocsOver(UnindexedBlocks, 1, MaxUnindexedBlocks)

InitUnindexed == LoadedFrom(UnindexedDocs)

NextUnindexed == ModuleQuery

SpecUnindexed == InitUnindexed /\ [][NextUnindexed]_vars

(***************************************************************************)
(* C28: the place of the lessons without an index in a module listing.     *)
(***************************************************************************)

\* No lesson index can be extracted from the title: its lower case holds
\* no number followed by 'урок'.
Unindexed(title) == IndexStarts(Lower(title)) = {}

\* The position in the index of the first item with the lesson title.
FirstAppearance(title) ==
    Least({ n \in 1..Len(KB_INDEX) : KB_INDEX[n].lesson_title = title })

\* C28: in a module listing the lessons whose title gives no lesson index
\* stand after all the lessons with an index and, among themselves, in the
\* order in which they first appear in the index.
C28_UnindexedLastInFirstAppearanceOrder ==
    (call.fn = "format_module_lessons" /\ IsListing(Results)) =>
        With(ListedTitles(Results), LAMBDA titles :
            \A i, j \in 1..Len(titles) :
                (i < j /\ Unindexed(titles[i])) =>
                    /\ Unindexed(titles[j])
                    /\ FirstAppearance(titles[i]) < FirstAppearance(titles[j]))

(***************************************************************************)
(* The vector search on an index larger than its over-fetch: lessons that  *)
(* all hold the same section and material, so that their items have one    *)
(* dedup key, and one lesson with another material.                        *)
(***************************************************************************)

\* How many items the index has beyond the over-fetch floor.
Beyond == 2

PoolItems == OverFetchFloor + Beyond

\* "Раздел A: y"
L_section_y == << 1056, 1072, 1079, 1076, 1077, 1083, 32, 65, 58, 32, 121 >>

\* The lines of lesson n of the corpus d: the lesson '<n> урок' without a
\* section (one item of empty section and material); lesson d has the
\* section 'Раздел A: y'.
PoolLesson(n, d) ==
    IF n = d THEN << Str(n) \o L_space_urok, L_section_y >>
             ELSE << Str(n) \o L_space_urok >>

\* The corpus d: the lessons 1..PoolItems one after the other.
PoolDoc(d) ==
    [exists |-> TRUE,
     lines |-> [m \in 1..(PoolItems + 1) |->
                   IF m <= d THEN PoolLesson(m, d)[1]
                   ELSE IF m = d + 1 THEN PoolLesson(d, d)[2]
                   ELSE PoolLesson(m - 1, d)[1]]]

\* KB_INDEX after load_kb() read the corpus d.  No course, step or module
\* line stands in the corpus and the sub-scan of a lesson (lines 571-581)
\* ends at the next lesson line, so that the lesson branch reads the
\* lines of its own lesson only: the index is, lesson after lesson, the one
\* item load_kb() makes of the lesson.
PoolIndex(d) ==
    [n \in 1..PoolItems |->
        ParseDoc([exists |-> TRUE, lines |-> PoolLesson(n, d)])[1]]

\* The other lesson stands around the end of the over-fetch.
PoolPlaces == (OverFetchFloor - 1)..PoolItems

\* The vectors of the tables: along the query vector, at 45 degrees to it,
\* opposite to it.
PoolVectors == { << 1, 0 >>, << 1, 1 >>, << -1, 0 >> }

\* The tables of one vector per item: the first h items one vector, the
\* others another, the change standing around the end of the over-fetch.
PoolTables ==
    { [n \in 1..PoolItems |-> IF n <= h THEN first ELSE rest] :
        h \in (OverFetchFloor - 2)..PoolItems,
        first \in PoolVectors, rest \in PoolVectors }

\* The process after load_kb() read one of the corpora.
InitPool ==
    /\ \E d \in PoolPlaces :
           /\ kb_file = PoolDoc(d)
           /\ KB_INDEX = PoolIndex(d)
    /\ KB_EMB_VECS = EMPTY
    /\ ret = [n |-> Len(KB_INDEX), status |-> "OK"]
    /\ budget = 0
    /\ itemLine = [n \in 1..Len(KB_INDEX) |-> 0]
    /\ snapshot = KB_INDEX
    /\ Quiet

StartupPool ==
    /\ call = NoCall
    /\ \E read \in PoolTables : LoadEmbeddings(read)

PoolQuery ==
    /\ Serving
    /\ \E k \in 1..MaxK, reply \in EmbedReplies : CallSemantic(Q_urok, k, reply)

NextPool ==
    \/ StartupPool
    \/ PoolQuery

SpecPool == InitPool /\ [][NextPool]_vars

(***************************************************************************)
(* C29: the order and the pool of the vector search.                       *)
(***************************************************************************)

\* The similarity of the query vector of the call to the vector of item n.
Sim(n) == cosine(call.args.reply.embedding, KB_EMB_VECS[n])

\* The positions the search scored: those of similarity above -0.5.
ScoredPositions ==
    { n \in 1..MinCount : AboveFloor(Sim(n)) }

\* The position of an item in the index (the lesson titles tell the items
\* apart).
PositionOf(it) == CHOOSE n \in 1..Len(KB_INDEX) : KB_INDEX[n] = it

\* Fewer than max(4k, 40) scored positions are more similar than position n.
AmongHighest(n, k) ==
    Cardinality({ m \in ScoredPositions : FracGt(Sim(m), Sim(n)) }) < OverFetch(k)

\* C29: kb_candidates_semantic returns its candidates in non-increasing
\* order of cosine similarity; every candidate is a scored position among
\* the max(4k, 40) most similar ones, and no two candidates share a dedup
\* key: duplicates are dropped inside that pool, and no position outside it
\* takes their place.
C29_RankedWithinOverFetch ==
    (call.fn = "kb_candidates_semantic" /\ Results # EMPTY) =>
        With([r \in 1..Len(Results) |-> PositionOf(Results[r])], LAMBDA ps :
            /\ \A r, s \in 1..Len(ps) :
                   r < s => /\ ~FracGt(Sim(ps[s]), Sim(ps[r]))
                            /\ DedupKey(Results[r]) # DedupKey(Results[s])
            /\ \A r \in 1..Len(ps) :
                   /\ ps[r] \in ScoredPositions
                   /\ AmongHighest(ps[r], call.args.k))

\* Two candidates were asked for and one was returned: the items of the
\* pool all have one key, and the item with another key, scored but less
\* similar than the whole pool, was not taken in.
C29_Witness ==
    /\ call.fn = "kb_candidates_semantic"
    /\ call.args.k = 2
    /\ Len(Results) = 1
    /\ \E n \in ScoredPositions :
           /\ DedupKey(KB_INDEX[n]) # DedupKey(Results[1])
           /\ ~AmongHighest(n, 2)

(***************************************************************************)
(* C30: the positions of the loaded vectors.                               *)
(***************************************************************************)

\* C30: after load_embeddings the vector at position i of the table is the
\* vector of record i of the artifact, for every i of the table: a record
\* that is malformed or has no vector does not move the vectors of the
\* later records to other positions.
C30_VectorKeepsRecordPosition ==
    (LoadedRecords /\ ~out.raised) =>
        With(call.args.artifact.records, LAMBDA records :
            \A i \in 1..Len(KB_EMB_VECS) :
                /\ i <= Len(records)
                /\ records[i].kind = "vector"
                /\ KB_EMB_VECS[i] = records[i].embedding)

(***************************************************************************)
(* build_embeddings.py: the script that writes knowledge/embeddings.json,  *)
(* and load_embeddings() on the file it wrote.  The script runs in a       *)
(* process of its own and imports main.py there.                           *)
(***************************************************************************)

\* A JSON list and a JSON number.
JList(items) == [type |-> "list", items |-> items]

JNum(n) == [type |-> "number", items |-> EMPTY, value |-> n]

\* An embeddings file that holds a JSON object with the given members.
ObjectArtifact(fields) == [state |-> "object", records |-> EMPTY, fields |-> fields]

\* An element of a JSON list that is itself a list of numbers: no object.
BareVector(vec) == [kind |-> "not_dict", embedding |-> vec]

\* main.py lines 656-668: the list load_embeddings takes out of a JSON object.
\* It looks under "items", "data" and "embeddings", in this order.
WrapperKeys == << "items", "data", "embeddings" >>

ItemsOf(art) ==
    IF art.state # "object" THEN art
    ELSE With({ n \in 1..Len(WrapperKeys) :
                  /\ WrapperKeys[n] \in DOMAIN art.fields
                  /\ art.fields[WrapperKeys[n]].type = "list" }, LAMBDA found :
             IF found = {} THEN UnrecognizedArtifact
             ELSE RecordsArtifact(
                      art.fields[WrapperKeys[CHOOSE n \in found :
                                                \A m \in found : n <= m]].items))

\* The list the name KB_INDEX of build_embeddings.py stands for when main()
\* reads it (line 29).  Line 10 binds the name, at import, to the list object
\* main.py made at its line 466; load_kb() (line 24) assigns a new list to
\* the global of main.py (main.py lines 491, 496, 503) and appends to that
\* one, so the object of line 466 stays empty.
ImportedIndex(loaded) == EMPTY

\* "empty"
L_empty == << 101, 109, 112, 116, 121 >>

\* build_embeddings.py lines 28-33: the texts to embed.
BuilderTexts(index) ==
    [n \in 1..Len(index) |->
        IF Strip(index[n].text) = EMPTY THEN L_empty ELSE Strip(index[n].text)]

\* The embedding service (lines 38-40): one vector per text, in the order
\* of the texts.  The vector stands for its text.
EmbeddingOf(text) == << Len(text), 1 >>

\* build_embeddings.py main() on the corpus file: the payload of lines 44-50.
build_embeddings(file) ==
    With(BuilderTexts(ImportedIndex(ParseDoc(file))), LAMBDA texts :
    With([n \in 1..Len(texts) |-> EmbeddingOf(texts[n])], LAMBDA vectors :
        ObjectArtifact(
            [key \in {"model", "count", "dim", "vectors"} |->
                IF key = "vectors"
                    THEN JList([n \in 1..Len(vectors) |-> BareVector(vectors[n])])
                ELSE IF key = "count" THEN JNum(Len(vectors))
                ELSE IF key = "dim"
                    THEN JNum(IF vectors = EMPTY THEN 0 ELSE Len(vectors[1]))
                ELSE [type |-> "string", items |-> EMPTY]])))

\* The longest corpus of the round trip.
MaxBuildLines == 2

BuildDocs == DocsOver(LessonPool, 0, MaxBuildLines) \cup { NoFile }

InitBuild == LoadedFrom(BuildDocs)

\* The script is run on the corpus before the application starts serving.
RunBuilder ==
    /\ call = NoCall
    /\ Answer("build_embeddings", [file |-> kb_file],
              Returned(build_embeddings(kb_file)))

\* _startup() of the application: load_embeddings() on the file the script
\* wrote.
StartupBuilt ==
    /\ pc = "idle"
    /\ call.fn = "build_embeddings"
    /\ With(load_embeddings(KB_INDEX, ItemsOf(out.value)), LAMBDA done :
           /\ KB_EMB_VECS' = done.table
           /\ out' = done.out)
    /\ call' = [fn |-> "load_embeddings", args |-> [artifact |-> out.value]]
    /\ UNCHANGED << chatVars, kb_file, KB_INDEX, pc, frame, ret, budget, itemLine, scanned,
                    loads, snapshot >>

NextBuild ==
    \/ RunBuilder
    \/ StartupBuilt
    \/ VectorQuery

SpecBuild == InitBuild /\ [][NextBuild]_vars

(***************************************************************************)
(* C31: the round trip of the vector file.                                 *)
(***************************************************************************)

\* C31: build_embeddings embeds exactly one text per item of the corpus
\* load_kb parsed, and the file it writes, read by load_embeddings, gives a
\* vector table of that size in which vector i is the one of KB_INDEX[i].
C31_BuiltVectorsRoundTrip ==
    (call.fn = "load_embeddings" /\ call.args.artifact.state = "object") =>
        /\ Len(call.args.artifact.fields["vectors"].items) = Len(KB_INDEX)
        /\ Len(KB_EMB_VECS) = Len(KB_INDEX)
        /\ \A i \in 1..Len(KB_INDEX) :
               KB_EMB_VECS[i] = EmbeddingOf(BuilderTexts(KB_INDEX)[i])

(***************************************************************************)
(* C32: the scan of load_kb moves forward.                                 *)
(***************************************************************************)

\* C32: every iteration of the main loop of load_kb leaves the scan at a
\* later line of the same document and at most one past its last line, so
\* the loop ends after at most as many iterations as the document has lines;
\* the position never moves backwards.
C32_ScanAdvances ==
    [][(pc = "scan" /\ pc' = "scan") =>
          /\ frame'.lines = frame.lines
          /\ frame'.i > frame.i
          /\ frame'.i <= Len(frame.lines) + 1]_vars

\* The scan took a Module header and stands two lines after it: the
\* peek-ahead consumed the link line that follows the header.
C32_Witness ==
    /\ pc = "scan"
    /\ scanned # EMPTY
    /\ scanned[Len(scanned)].kind = "module"
    /\ frame.i = scanned[Len(scanned)].line + 2

(***************************************************************************)
(* The daily limit of the webhook: the text branch and the branch of a     *)
(* photo that belongs to no album.                                         *)
(***************************************************************************)

\* main.py line 28.
DAILY_LIMIT == 70

\* main.py line 62.
IMAGE_KEEP == 12

\* The record of the chat after the test of lines 36-39 (and 45-48): a new
\* one for the day when there is none or the one there is of another day.
RecordOf(rec, day) ==
    IF rec = NoRecord \/ rec.day # day THEN [day |-> day, count |-> 0] ELSE rec

\* can_reply_today (lines 34-41): the record it leaves and what it returns.
can_reply_today(rec, day) ==
    With(RecordOf(rec, day), LAMBDA r :
    With(IF DAILY_LIMIT - r.count > 0 THEN DAILY_LIMIT - r.count ELSE 0, LAMBDA remaining :
        [rec |-> r, ok |-> remaining > 0, remaining |-> remaining]))

\* inc_today (lines 43-49): the record it leaves.
inc_today(rec, day) ==
    With(RecordOf(rec, day), LAMBDA r : [r EXCEPT !.count = r.count + 1])

\* push_image (lines 331-344): the history it leaves.
push_image(history, seq, img, album_id) ==
    With(Append(history, [num |-> seq + 1, image |-> img, album_id |-> album_id]),
         LAMBDA h : IF Len(h) <= IMAGE_KEEP THEN h
                    ELSE SubSeq(h, Len(h) - IMAGE_KEEP + 1, Len(h)))

\* How many text messages a chat sends in a day beyond the limit, how
\* many photos without an album it sends, and the last day.
MaxOver == 2

MaxSingles == 2

MaxDay == 1

\* The text branch (lines 1179-1342) on a text of the given kind: one the
\* topic guard rejects ("forbidden") or any other ("question").  Past the
\* limit the notice is sent, for a forbidden topic the fixed reply; every
\* other path (lesson list, comparison, course links, plain answer) sends
\* one generated answer.  Each path ends with inc_today.
TextMessage(kind) ==
    /\ With(can_reply_today(DAILY_COUNTER, today), LAMBDA can :
           /\ DAILY_COUNTER' = inc_today(can.rec, today)
           /\ answersToday' = IF can.ok /\ kind = "question"
                              THEN answersToday + 1 ELSE answersToday)
    /\ UNCHANGED << kbVars, today, ALBUM_BUFFER, dicts, tasks, now, IMAGE_HISTORY,
                    IMAGE_SEQ, received, albumAnswers >>

\* The chat has sent fewer than MaxOver texts beyond the limit.
MoreTexts == DAILY_COUNTER.count < DAILY_LIMIT + MaxOver

TextQuestion ==
    /\ MoreTexts
    /\ TextMessage("question")

TextForbidden ==
    /\ MoreTexts
    /\ TextMessage("forbidden")

\* The branch of a photo without media_group_id (lines 1124-1131 and
\* 1144-1176), the download having succeeded: the image is described and
\* pushed, and one generated answer is sent, with or without a caption.
SinglePhoto ==
    /\ Len(received) < MaxSingles
    /\ received' = Append(received, 0)
    /\ IMAGE_SEQ' = IMAGE_SEQ + 1
    /\ IMAGE_HISTORY' = push_image(IMAGE_HISTORY, IMAGE_SEQ, Len(received) + 1, 0)
    /\ answersToday' = answersToday + 1
    /\ UNCHANGED << kbVars, today, DAILY_COUNTER, ALBUM_BUFFER, dicts, tasks, now,
                    albumAnswers >>

\* Midnight passes.
DayChange ==
    /\ today < MaxDay
    /\ today' = today + 1
    /\ answersToday' = 0
    /\ UNCHANGED << kbVars, DAILY_COUNTER, ALBUM_BUFFER, dicts, tasks, now,
                    IMAGE_HISTORY, IMAGE_SEQ, received, albumAnswers >>

\* The corpus of the process that handles the messages: one lesson.
ChatDoc == [exists |-> TRUE, lines |-> << Str(1) \o L_space_urok >>]

InitLimit == LoadedFrom({ ChatDoc })

NextLimit ==
    \/ TextQuestion
    \/ TextForbidden
    \/ SinglePhoto
    \/ DayChange

SpecLimit == InitLimit /\ [][NextLimit]_vars

(***************************************************************************)
(* C33: the daily limit.                                                   *)
(***************************************************************************)

\* C33: whatever text and photo messages come in, the chat receives at most
\* DAILY_LIMIT generated answers within one calendar day: once it has
\* received that many, no further one is sent until the day changes.
C33_AnswersWithinDailyLimit == answersToday <= DAILY_LIMIT

(***************************************************************************)
(* Albums: the album mode of the webhook, _schedule_album and the          *)
(* _process_album tasks.  A handler runs without interruption up to its    *)
(* return; a task runs up to its sleep and, woken, to its end: the only    *)
(* await of _process_album is the sleep of line 1001, and the calls to the *)
(* network block the event loop.                                           *)
(***************************************************************************)

\* The task_id of a buffer dict no task was scheduled for ("").
NoTaskId == -1

\* Line 1136: the dict of an album that has no entry in ALBUM_BUFFER.
NewDict == [images |-> << >>, caption |-> EMPTY, task_id |-> NoTaskId]

\* ALBUM_BUFFER.get(key): the number of the dict, 0 for None.
BufferGet(buffer, album) == IF album \in DOMAIN buffer THEN buffer[album] ELSE 0

\* ALBUM_BUFFER[key] = buf
BufferPut(buffer, album, ref) ==
    [a \in DOMAIN buffer \cup { album } |-> IF a = album THEN ref ELSE buffer[a]]

\* A pop that leaves the entry in place.
BufferPopKept(buffer, album) == buffer

\* ALBUM_BUFFER.pop(key, None)  (line 1010)
BufferPop(buffer, album) == [a \in DOMAIN buffer \ { album } |-> buffer[a]]

\* Lines 1137-1139 and 1105: the dict after the webhook appended the image,
\* took the caption if it had none, and _schedule_album stamped it.
BufferedDict(d, img, caption, stamp) ==
    [images |-> Append(d.images, img),
     caption |-> IF caption # EMPTY /\ d.caption = EMPTY THEN caption ELSE d.caption,
     task_id |-> stamp]

\* The loop of lines 1019-1029: push_image for each image, in order.
RECURSIVE PushAll(_, _, _, _)
PushAll(history, seq, images, album) ==
    IF images = << >> THEN history
    ELSE PushAll(push_image(history, seq, Head(images), album), seq + 1,
                 Tail(images), album)

\* The albums of the chat, the photos it sends and the readings of the clock.
MaxAlbums == 1

MaxPhotos == 3

MaxClock == 1

Albums == 1..MaxAlbums

\* The captions of the photos: none, or "c".
Captions == { EMPTY, << 99 >> }

\* The album mode of the webhook (lines 1124-1142) for a photo of the album,
\* the download having succeeded.  The dict of the album is changed in
\* place; a task sleeping on the album holds the same dict.  The field
\* superseded of a task is history: a later photo of its album was
\* scheduled while it slept.
AlbumPhoto(album, caption) ==
    /\ With(BufferGet(ALBUM_BUFFER, album), LAMBDA found :
       With(IF found = 0 THEN Len(dicts) + 1 ELSE found, LAMBDA ref :
           /\ dicts' = [n \in 1..(IF found = 0 THEN Len(dicts) + 1 ELSE Len(dicts)) |->
                           IF n = ref
                           THEN BufferedDict(IF found = 0 THEN NewDict ELSE dicts[n],
                                             Len(received) + 1, Strip(caption), now)
                           ELSE dicts[n]]
           /\ ALBUM_BUFFER' = BufferPut(ALBUM_BUFFER, album, ref)))
    /\ received' = Append(received, album)
    /\ tasks' = Append([t \in 1..Len(tasks) |->
                           IF tasks[t].album = album /\ tasks[t].at = "sleeping"
                           THEN [tasks[t] EXCEPT !.superseded = TRUE] ELSE tasks[t]],
                       [album |-> album, at |-> "created", data |-> 0,
                        superseded |-> FALSE])
    /\ UNCHANGED << kbVars, today, DAILY_COUNTER, answersToday, now, IMAGE_HISTORY,
                    IMAGE_SEQ, albumAnswers >>

PhotoOfAlbum ==
    /\ Len(received) < MaxPhotos
    /\ \E album \in Albums, caption \in Captions : AlbumPhoto(album, caption)

\* _process_album up to its sleep (lines 995-1001).
TaskStart(t) ==
    /\ tasks[t].at = "created"
    /\ With(BufferGet(ALBUM_BUFFER, tasks[t].album), LAMBDA data :
           tasks' = [tasks EXCEPT ![t].at = IF data = 0 THEN "done" ELSE "sleeping",
                                  ![t].data = data])
    /\ UNCHANGED << kbVars, today, DAILY_COUNTER, answersToday, ALBUM_BUFFER, dicts,
                    now, IMAGE_HISTORY, IMAGE_SEQ, received, albumAnswers >>

ProcessAlbumBegins == \E t \in 1..Len(tasks) : TaskStart(t)

\* Whether the woken task goes on past line 1005, for the dict it took
\* before its sleep and the one it finds now.
StillCurrent(data, data2) ==
    data2 # 0 /\ dicts[data2].task_id = dicts[data].task_id

\* _process_album from its wake-up on (lines 1003-1099).  Each of the three
\* ways to answer (comparison, caption, no caption) describes and pushes
\* every image of the dict and sends one answer built from all of them.
TaskWake(t) ==
    /\ tasks[t].at = "sleeping"
    /\ tasks' = [tasks EXCEPT ![t].at = "done"]
    /\ With(BufferGet(ALBUM_BUFFER, tasks[t].album), LAMBDA data2 :
           IF StillCurrent(tasks[t].data, data2) /\ dicts[data2].images # << >>
           THEN /\ ALBUM_BUFFER' = BufferPop(ALBUM_BUFFER, tasks[t].album)
                /\ IMAGE_HISTORY' = PushAll(IMAGE_HISTORY, IMAGE_SEQ,
                                            dicts[data2].images, tasks[t].album)
                /\ IMAGE_SEQ' = IMAGE_SEQ + Len(dicts[data2].images)
                /\ albumAnswers' = Append(albumAnswers,
                                          [album |-> tasks[t].album,
                                           images |-> dicts[data2].images,
                                           task |-> t])
                /\ answersToday' = answersToday + 1
           ELSE /\ ALBUM_BUFFER' = IF StillCurrent(tasks[t].data, data2)
                                   THEN BufferPop(ALBUM_BUFFER, tasks[t].album)
                                   ELSE ALBUM_BUFFER
                /\ UNCHANGED << IMAGE_HISTORY, IMAGE_SEQ, albumAnswers, answersToday >>)
    /\ UNCHANGED << kbVars, today, DAILY_COUNTER, dicts, now, received >>

ProcessAlbumWakes == \E t \in 1..Len(tasks) : TaskWake(t)

\* time.time() gives a later reading.
Tick ==
    /\ now < MaxClock
    /\ now' = now + 1
    /\ UNCHANGED << kbVars, today, DAILY_COUNTER, answersToday, ALBUM_BUFFER, dicts,
                    tasks, IMAGE_HISTORY, IMAGE_SEQ, received, albumAnswers >>

InitAlbum == LoadedFrom({ ChatDoc })

NextAlbum ==
    \/ PhotoOfAlbum
    \/ ProcessAlbumBegins
    \/ ProcessAlbumWakes
    \/ Tick

SpecAlbum == InitAlbum /\ [][NextAlbum]_vars

(***************************************************************************)
(* C34, C35, C36: what the album tasks answer and push.                    *)
(***************************************************************************)

\* The images of the photos of an album, in the order of arrival.
PhotosOf(album) ==
    SelectSeq([n \in 1..Len(received) |-> n], LAMBDA n : received[n] = album)

\* The answers sent for an album.
AnswersFor(album) == { n \in 1..Len(albumAnswers) : albumAnswers[n].album = album }

\* No task is waiting to start or asleep.
Quiescent == \A t \in 1..Len(tasks) : tasks[t].at = "done"

\* C34: an album is answered once: however the webhooks of its photos
\* interleave with the tasks, no album gets a second answer, and when no
\* task is left the one answer of an album is built from all its photos.
C34_AlbumAnsweredOnce ==
    \A album \in Albums :
        PhotosOf(album) # << >> =>
            /\ Cardinality(AnswersFor(album)) <= 1
            /\ Quiescent =>
                  \E n \in AnswersFor(album) :
                      albumAnswers[n].images = PhotosOf(album)

\* C35: a task that wakes from its sleep processes the buffer only if no
\* later photo of its album was scheduled while it slept: no answer comes
\* from a superseded task.
C35_SupersededTaskReturns ==
    \A n \in 1..Len(albumAnswers) : ~tasks[albumAnswers[n].task].superseded

\* How many entries of the image history hold image n.
Pushes(n) ==
    Cardinality({ e \in 1..Len(IMAGE_HISTORY) : IMAGE_HISTORY[e].image = n })

\* C36: under every interleaving of album photos and tasks, an image
\* appended to the album buffer is pushed to the image history at most once
\* and under a number of its own, and when no task is left it has been
\* pushed: none is lost, none is described or numbered twice.
C36_EachImagePushedOnce ==
    /\ \A n \in 1..Len(received) :
           received[n] # 0 =>
               /\ Pushes(n) <= 1
               /\ Quiescent => Pushes(n) = 1
    /\ \A e, f \in 1..Len(IMAGE_HISTORY) :
           e < f => IMAGE_HISTORY[e].num < IMAGE_HISTORY[f].num

\* All tasks are over; a task that a later photo superseded processed the
\* album, and a photo that came after its answer was processed by another.
C36_Witness ==
    /\ Quiescent
    /\ \E album \in Albums :
           /\ Cardinality(AnswersFor(album)) = 2
           /\ \E n \in AnswersFor(album) : tasks[albumAnswers[n].task].superseded
    /\ \A n \in 1..Len(received) : Pushes(n) = 1

====
